---- MODULE Spec2Model ----
(***************************************************************************)
(* A model of the LAMMPS post-processing tools: the chunked-profile        *)
(* reader and its Welford aggregation (average_lammps_profile.py), the     *)
(* trajectory reducer (skip_lammpstrj.py), the trajectory frame parser     *)
(* (read_lammpstrj.py), the log reader (read_lammps_log.py) and the data   *)
(* file reader (read_lammps_data.py).                                      *)
(*                                                                         *)
(* Floating-point numbers are modelled as exact rationals <<n, d>> in      *)
(* lowest terms with d > 0; <<0, -1>> is the negative zero, <<0, 0>> is    *)
(* nan and <<1, 0>>, <<-1, 0>> are the infinities.                         *)
(***************************************************************************)
EXTENDS Integers, Sequences, FiniteSets, TLC

VARIABLES
    \* update_variance driven directly (SpecWelford)
    w_length, w_mean, w_m2, w_variance, w_fed,
    \* average_profiles (SpecAverage)
    raw_data_matrix, raw_data, average_data, n_data, m2_data, var_data, avg_pc,
    seen_keys,      \* the keys of the records consumed so far, in order
    \* read_lammps_profile (SpecProfile)
    cols, lines_to_read, data, keys, step, lines, prof_pc,
    out,            \* the records yielded so far, in order
    n_read,         \* lines read from the file
    opened,         \* record-opening lines parsed so far
    declared,       \* the row count declared on the last opening line
    data_rec,       \* for each row held in data, the record it was read for
    filled,         \* the records for which at least one row was read
    \* skip_lammpstrj.main (SpecSkip)
    file,           \* the lines of the input file
    skip, pos, raw, frames_tot, frames, frames_read, output, out_exists, skip_pc,
    seen_frames,    \* the frames read_lammpstrj has yielded, in order
    written,        \* the indices of the frames written, in order
    \* frame_to_dict (SpecFrame)
    f_frame,        \* the lines of the frame read so far
    f_item, f_atom_format, f_data, f_pc,
    f_printed,      \* the keys named in the printed diagnostics, in order
    \* read_lammps_log (SpecLog)
    l_keys, l_data, l_read, l_pc,
    l_out,          \* the blocks yielded so far, in order
    l_lines,        \* the lines read so far
    l_cand,         \* the rows parsed since data was last emptied
    l_reported,     \* the diagnostics printed since data was last emptied
    l_closed,       \* a 'Loop time' line was read since the last 'Step' line
    l_stray,        \* lines parsed as rows while l_closed
    \* read_data_file (SpecData)
    d_topology, d_current_section, d_pc,
    d_lines         \* the lines read so far

wvars == <<w_length, w_mean, w_m2, w_variance, w_fed>>
avars == <<raw_data_matrix, raw_data, average_data, n_data, m2_data, var_data, avg_pc,
           seen_keys>>
pvars == <<cols, lines_to_read, data, keys, step, lines, prof_pc, out, n_read, opened,
           declared, data_rec, filled>>
svars == <<file, skip, pos, raw, frames_tot, frames, frames_read, output, out_exists,
           skip_pc, seen_frames, written>>
fvars == <<f_frame, f_item, f_atom_format, f_data, f_pc, f_printed>>
lvars == <<l_keys, l_data, l_read, l_pc, l_out, l_lines, l_cand, l_reported, l_closed,
           l_stray>>
dvars == <<d_topology, d_current_section, d_pc, d_lines>>
vars == <<wvars, avars, pvars, svars, fvars, lvars, dvars>>

(***************************************************************************)
(* Bounds of the model.                                                    *)
(***************************************************************************)
MaxObs == 3         \* observations fed to update_variance
MaxRecords == 2     \* records consumed by average_profiles
MaxFileLines == 4   \* lines of a trajectory file
MaxSkip == 3        \* largest stride given to skip_lammpstrj.main
MaxLines == 6       \* lines of a profile file
BinCounts == {1, 2} \* lengths of the vectors fed to update_variance
Values == {1, 2, 4} \* numbers fed to update_variance
Headers == {<<"a">>, <<"a", "b">>, <<"a", "a">>}
Shapes == {<<1, 1>>, <<2, 1>>, <<3, 1>>, <<1, 2>>}  \* <<rows, columns>> of a record
AvgValues == {1, 2} \* numbers in the records consumed by average_profiles

(***************************************************************************)
(* Exact arithmetic standing for Python floats.                            *)
(***************************************************************************)
Abs(n) == IF n < 0 THEN -n ELSE n

RECURSIVE GCD(_, _)
GCD(a, b) == IF b = 0 THEN a ELSE GCD(b, a % b)

Rat(n, d) ==
    LET s == IF d < 0 THEN -1 ELSE 1
        g == GCD(Abs(n), Abs(d))
    IN  <<(s * n) \div g, (s * d) \div g>>

FromInt(n) == <<n, 1>>
RZero == <<0, 1>>
RAdd(p, q) == Rat(p[1] * q[2] + q[1] * p[2], p[2] * q[2])
RSub(p, q) == Rat(p[1] * q[2] - q[1] * p[2], p[2] * q[2])
RMul(p, q) == Rat(p[1] * q[1], p[2] * q[2])
RDivInt(p, k) == Rat(p[1], p[2] * k)

(***************************************************************************)
(* Text.  A string of the model is a Python str; its characters are those  *)
(* a TLA+ string can hold.  The tables below list, among these characters, *)
(* what str.isspace(), str.lower() and int() know of them.                 *)
(***************************************************************************)
Char(t, i) == SubSeq(t, i, i)

\* the characters c with c.isspace(): what strip() removes and split()
\* splits at
Whitespace == {
    "\t", "\n", "", "\f", "\r", "", "", "", "", " ", "", " ", " "}

\* the characters c.lower() changes, each followed by c.lower()
LowerPairs == {
    "Aa", "Bb", "Cc", "Dd", "Ee", "Ff", "Gg", "Hh", "Ii", "Jj", "Kk", "Ll",
    "Mm", "Nn", "Oo", "Pp", "Qq", "Rr", "Ss", "Tt", "Uu", "Vv", "Ww", "Xx",
    "Yy", "Zz", "Àà", "Áá", "Ââ", "Ãã", "Ää", "Åå", "Ææ", "Çç", "Èè", "Éé",
    "Êê", "Ëë", "Ìì", "Íí", "Îî", "Ïï", "Ðð", "Ññ", "Òò", "Óó", "Ôô", "Õõ",
    "Öö", "Øø", "Ùù", "Úú", "Ûû", "Üü", "Ýý", "Þþ", "Ƃƃ", "Ƅƅ", "Ƈƈ", "Ƌƌ",
    "Ǝǝ", "Ƒƒ", "Ƙƙ", "Ơơ", "Ƣƣ", "Ƥƥ", "Ʀʀ", "Ƨƨ", "Ʃʃ", "Ƭƭ", "Ʈʈ", "Ưư",
    "Ʊʊ", "Ʋʋ", "Ƴƴ", "Ƶƶ", "Ʒʒ", "Ƹƹ", "Ƽƽ", "Ǆǆ", "ǅǆ", "Ǉǉ", "ǈǉ", "Ǌǌ",
    "ǋǌ", "Ǎǎ", "Ǐǐ", "Ǒǒ", "Ǔǔ", "Ǖǖ", "Ǘǘ", "Ǚǚ", "Ǜǜ", "Ǟǟ", "Ǡǡ", "Ǣǣ",
    "Ǥǥ", "Ǧǧ", "Ǩǩ", "Ǫǫ", "Ǭǭ", "Ǯǯ", "Ǳǳ", "ǲǳ", "Ǵǵ", "Ƕƕ", "Ƿƿ", "Ǹǹ",
    "Ǻǻ", "Ǽǽ", "Ǿǿ", "Άά", "Έέ", "Ήή", "Ίί", "Όό", "Ύύ", "Ώώ", "Αα", "Ββ",
    "Γγ", "Δδ", "Εε", "Ζζ", "Ηη", "Θθ", "Ιι", "Κκ", "Λλ", "Μμ", "Νν", "Ξξ",
    "Οο", "Ππ", "Ρρ", "Ττ", "Υυ", "Φφ", "Χχ", "Ψψ", "Ωω", "Ϊϊ", "Ϋϋ", "Ϗϗ",
    "Ϙϙ", "Ϛϛ", "Ϝϝ", "Ϟϟ", "Ϡϡ", "Ϣϣ", "Ϥϥ", "Ϧϧ", "Ϩϩ", "Ϫϫ", "Ϭϭ", "Ϯϯ",
    "ϴθ", "Ϸϸ", "Ϲϲ", "Ϻϻ", "Ҁҁ", "Ҋҋ", "Ҍҍ", "Ҏҏ", "Ґґ", "Ғғ", "Ҕҕ", "Җҗ",
    "Ҙҙ", "Ққ", "Ҝҝ", "Ҟҟ", "Ҡҡ", "Ңң", "Ҥҥ", "Ҧҧ", "Ҩҩ", "Ҫҫ", "Ҭҭ", "Үү",
    "Ұұ", "Ҳҳ", "Ҵҵ", "Ҷҷ", "Ҹҹ", "Һһ", "Ҽҽ", "Ҿҿ", "Ӏӏ", "Ӂӂ", "Ӄӄ", "Ӆӆ",
    "Ӈӈ", "Ӊӊ", "Ӌӌ", "Ӎӎ", "Ӑӑ", "Ӓӓ", "Ӕӕ", "Ӗӗ", "Әә", "Ӛӛ", "Ӝӝ", "Ӟӟ",
    "Ӡӡ", "Ӣӣ", "Ӥӥ", "Ӧӧ", "Өө", "Ӫӫ", "Ӭӭ", "Ӯӯ", "Ӱӱ", "Ӳӳ", "Ӵӵ", "Ӷӷ",
    "Ӹӹ", "Ӻӻ", "Ӽӽ", "Ӿӿ", "Ꮀꮀ", "Ꮁꮁ", "Ꮂꮂ", "Ꮃꮃ", "Ꮄꮄ", "Ꮅꮅ", "Ꮆꮆ", "Ꮇꮇ",
    "Ꮈꮈ", "Ꮉꮉ", "Ꮊꮊ", "Ꮋꮋ", "Ꮌꮌ", "Ꮍꮍ", "Ꮎꮎ", "Ꮏꮏ", "Ꮐꮐ", "Ꮑꮑ", "Ꮒꮒ", "Ꮓꮓ",
    "Ꮔꮔ", "Ꮕꮕ", "Ꮖꮖ", "Ꮗꮗ", "Ꮘꮘ", "Ꮙꮙ", "Ꮚꮚ", "Ꮛꮛ", "Ꮜꮜ", "Ꮝꮝ", "Ꮞꮞ", "Ꮟꮟ",
    "Ꮠꮠ", "Ꮡꮡ", "Ꮢꮢ", "Ꮣꮣ", "Ꮤꮤ", "Ꮥꮥ", "Ꮦꮦ", "Ꮧꮧ", "Ꮨꮨ", "Ꮩꮩ", "Ꮪꮪ", "Ꮫꮫ",
    "Ꮬꮬ", "Ꮭꮭ", "Ꮮꮮ", "Ꮯꮯ", "Ꮰꮰ", "Ꮱꮱ", "Ꮲꮲ", "Ꮳꮳ", "Ꮴꮴ", "Ꮵꮵ", "Ꮶꮶ", "Ꮷꮷ",
    "Ꮸꮸ", "Ꮹꮹ", "Ꮺꮺ", "Ꮻꮻ", "Ꮼꮼ", "Ꮽꮽ", "Ꮾꮾ", "Ꮿꮿ", "Ᏸᏸ", "Ᏹᏹ", "Ᏺᏺ", "Ᏻᏻ",
    "Ᏼᏼ", "Ᏽᏽ", "Აა", "Ბბ", "Გგ", "Დდ", "Ეე", "Ვვ", "Ზზ", "Თთ", "Იი", "Კკ",
    "Ლლ", "Მმ", "Ნნ", "Ოო", "Პპ", "Ჟჟ", "Რრ", "Სს", "Ტტ", "Უუ", "Ფფ", "Ქქ",
    "Ღღ", "Ყყ", "Შშ", "Ჩჩ", "Ცც", "Ძძ", "Წწ", "Ჭჭ", "Ხხ", "Ჯჯ", "Ჰჰ", "Ჱჱ",
    "Ჲჲ", "Ჳჳ", "Ჴჴ", "Ჵჵ", "Ჶჶ", "Ჷჷ", "Ჸჸ", "Ჹჹ", "Ჺჺ", "Ჽჽ", "Ჾჾ", "Ჿჿ",
    "Ẁẁ", "Ẃẃ", "Ẅẅ", "Ẇẇ", "Ẉẉ", "Ẋẋ", "Ẍẍ", "Ẏẏ", "Ẑẑ", "Ẓẓ", "Ẕẕ", "ẞß",
    "Ạạ", "Ảả", "Ấấ", "Ầầ", "Ẩẩ", "Ẫẫ", "Ậậ", "Ắắ", "Ằằ", "Ẳẳ", "Ẵẵ", "Ặặ",
    "Ẹẹ", "Ẻẻ", "Ẽẽ", "Ếế", "Ềề", "Ểể", "Ễễ", "Ệệ", "Ỉỉ", "Ịị", "Ọọ", "Ỏỏ",
    "Ốố", "Ồồ", "Ổổ", "Ỗỗ", "Ộộ", "Ớớ", "Ờờ", "Ởở", "Ỡỡ", "Ợợ", "Ụụ", "Ủủ",
    "Ứứ", "Ừừ", "Ửử", "Ữữ", "Ựự", "Ỳỳ", "Ỵỵ", "Ỷỷ", "Ỹỹ", "Ỻỻ", "Ỽỽ", "Ỿỿ",
    "ᾈᾀ", "ᾉᾁ", "ᾊᾂ", "ᾋᾃ", "ᾌᾄ", "ᾍᾅ", "ᾎᾆ", "ᾏᾇ", "ᾘᾐ", "ᾙᾑ", "ᾚᾒ", "ᾛᾓ",
    "ᾜᾔ", "ᾝᾕ", "ᾞᾖ", "ᾟᾗ", "ᾨᾠ", "ᾩᾡ", "ᾪᾢ", "ᾫᾣ", "ᾬᾤ", "ᾭᾥ", "ᾮᾦ", "ᾯᾧ",
    "Ᾰᾰ", "Ᾱᾱ", "ᾼᾳ", "ῌῃ", "Ῐῐ", "Ῑῑ", "Ῠῠ", "Ῡῡ", "Ῥῥ", "ῼῳ", "Ↄↄ", "Ⓐⓐ",
    "Ⓑⓑ", "Ⓒⓒ", "Ⓓⓓ", "Ⓔⓔ", "Ⓕⓕ", "Ⓖⓖ", "Ⓗⓗ", "Ⓘⓘ", "Ⓙⓙ", "Ⓚⓚ", "Ⓛⓛ", "Ⓜⓜ",
    "Ⓝⓝ", "Ⓞⓞ", "Ⓟⓟ", "Ⓠⓠ", "Ⓡⓡ", "Ⓢⓢ", "Ⓣⓣ", "Ⓤⓤ", "Ⓥⓥ", "Ⓦⓦ", "Ⓧⓧ", "Ⓨⓨ",
    "Ⓩⓩ", "Ⲁⲁ", "Ⲃⲃ", "Ⲅⲅ", "Ⲇⲇ", "Ⲉⲉ", "Ⲋⲋ", "Ⲍⲍ", "Ⲏⲏ", "Ⲑⲑ", "Ⲓⲓ", "Ⲕⲕ",
    "Ⲗⲗ", "Ⲙⲙ", "Ⲛⲛ", "Ⲝⲝ", "Ⲟⲟ", "Ⲡⲡ", "Ⲣⲣ", "Ⲥⲥ", "Ⲧⲧ", "Ⲩⲩ", "Ⲫⲫ", "Ⲭⲭ",
    "Ⲯⲯ", "Ⲱⲱ", "Ⲳⲳ", "Ⲵⲵ", "Ⲷⲷ", "Ⲹⲹ", "Ⲻⲻ", "Ⲽⲽ", "Ⲿⲿ", "Ⳁⳁ", "Ⳃⳃ", "Ⳅⳅ",
    "Ⳇⳇ", "Ⳉⳉ", "Ⳋⳋ", "Ⳍⳍ", "Ⳏⳏ", "Ⳑⳑ", "Ⳓⳓ", "Ⳕⳕ", "Ⳗⳗ", "Ⳙⳙ", "Ⳛⳛ", "Ⳝⳝ",
    "Ⳟⳟ", "Ⳡⳡ", "Ⳣⳣ", "Ⳬⳬ", "Ⳮⳮ", "Ⳳⳳ", "Ꚁꚁ", "Ꚃꚃ", "Ꚅꚅ", "Ꚇꚇ", "Ꚉꚉ", "Ꚋꚋ",
    "Ꚍꚍ", "Ꚏꚏ", "Ꚑꚑ", "Ꚓꚓ", "Ꚕꚕ", "Ꚗꚗ", "Ꚙꚙ", "Ꚛꚛ", "Ꞁꞁ", "Ꞃꞃ", "Ꞅꞅ", "Ꞇꞇ",
    "Ꞌꞌ", "Ꞑꞑ", "Ꞓꞓ", "Ꞗꞗ", "Ꞙꞙ", "Ꞛꞛ", "Ꞝꞝ", "Ꞟꞟ", "Ꞡꞡ", "Ꞣꞣ", "Ꞥꞥ", "Ꞧꞧ",
    "Ꞩꞩ", "Ʞʞ", "Ʇʇ", "Ʝʝ", "Ꞵꞵ", "Ꞷꞷ", "Ꞹꞹ", "Ꞻꞻ", "Ꞽꞽ", "Ꞿꞿ", "Ꟁꟁ", "Ꟃꟃ",
    "Ꞔꞔ", "Ʂʂ", "Ᶎᶎ", "Ꟈꟈ", "Ꟊꟊ", "Ꟑꟑ", "Ꟗꟗ", "Ꟙꟙ", "Ꟶꟶ"}

\* the characters whose lower case no string of the model can hold
NoLower == {
    "Ɓ", "Ɔ", "Ɖ", "Ɗ", "Ə", "Ɛ", "Ɠ", "Ɣ", "Ɩ", "Ɨ", "Ɯ", "Ɲ", "Ɵ", "Ͻ",
    "Ͼ", "Ͽ", "Ⴀ", "Ⴁ", "Ⴂ", "Ⴃ", "Ⴄ", "Ⴅ", "Ⴆ", "Ⴇ", "Ⴈ", "Ⴉ", "Ⴊ", "Ⴋ",
    "Ⴌ", "Ⴍ", "Ⴎ", "Ⴏ", "Ⴐ", "Ⴑ", "Ⴒ", "Ⴓ", "Ⴔ", "Ⴕ", "Ⴖ", "Ⴗ", "Ⴘ", "Ⴙ",
    "Ⴚ", "Ⴛ", "Ⴜ", "Ⴝ", "Ⴞ", "Ⴟ", "Ⴠ", "Ⴡ", "Ⴢ", "Ⴣ", "Ⴤ", "Ⴥ", "Ⴧ", "Ⴭ",
    "Ꭰ", "Ꭱ", "Ꭲ", "Ꭳ", "Ꭴ", "Ꭵ", "Ꭶ", "Ꭷ", "Ꭸ", "Ꭹ", "Ꭺ", "Ꭻ", "Ꭼ", "Ꭽ",
    "Ꭾ", "Ꭿ", "Ὰ", "Ά", "Ὲ", "Έ", "Ὴ", "Ή", "Ὶ", "Ί", "Ὺ", "Ύ", "Ὸ", "Ό",
    "Ὼ", "Ώ", "Ɥ", "Ɦ", "Ɜ", "Ɡ", "Ɬ", "Ɪ", "Ꭓ"}

Changed == {Char(p, 1) : p \in LowerPairs}

LowerTable == [c \in Changed |-> Char(CHOOSE p \in LowerPairs : Char(p, 1) = c, 2)]

\* str.lower() of one character other than the capital sigma
LowerChar(c) ==
    CASE c \in Changed -> LowerTable[c]
      [] c \notin Changed /\ c \notin NoLower -> c

\* the cased characters that are not case-ignorable, and the case-ignorable
\* characters: the context str.lower() looks at around a capital sigma
Cased == {
    "A", "B", "C", "D", "E", "F", "G", "H", "I", "J", "K", "L", "M", "N",
    "O", "P", "Q", "R", "S", "T", "U", "V", "W", "X", "Y", "Z", "a", "b",
    "c", "d", "e", "f", "g", "h", "i", "j", "k", "l", "m", "n", "o", "p",
    "q", "r", "s", "t", "u", "v", "w", "x", "y", "z", "ª", "µ", "º", "À",
    "Á", "Â", "Ã", "Ä", "Å", "Æ", "Ç", "È", "É", "Ê", "Ë", "Ì", "Í", "Î",
    "Ï", "Ð", "Ñ", "Ò", "Ó", "Ô", "Õ", "Ö", "Ø", "Ù", "Ú", "Û", "Ü", "Ý",
    "Þ", "ß", "à", "á", "â", "ã", "ä", "å", "æ", "ç", "è", "é", "ê", "ë",
    "ì", "í", "î", "ï", "ð", "ñ", "ò", "ó", "ô", "õ", "ö", "ø", "ù", "ú",
    "û", "ü", "ý", "þ", "ÿ", "ƀ", "Ɓ", "Ƃ", "ƃ", "Ƅ", "ƅ", "Ɔ", "Ƈ", "ƈ",
    "Ɖ", "Ɗ", "Ƌ", "ƌ", "ƍ", "Ǝ", "Ə", "Ɛ", "Ƒ", "ƒ", "Ɠ", "Ɣ", "ƕ", "Ɩ",
    "Ɨ", "Ƙ", "ƙ", "ƚ", "ƛ", "Ɯ", "Ɲ", "ƞ", "Ɵ", "Ơ", "ơ", "Ƣ", "ƣ", "Ƥ",
    "ƥ", "Ʀ", "Ƨ", "ƨ", "Ʃ", "ƪ", "ƫ", "Ƭ", "ƭ", "Ʈ", "Ư", "ư", "Ʊ", "Ʋ",
    "Ƴ", "ƴ", "Ƶ", "ƶ", "Ʒ", "Ƹ", "ƹ", "ƺ", "Ƽ", "ƽ", "ƾ", "ƿ", "Ǆ", "ǅ",
    "ǆ", "Ǉ", "ǈ", "ǉ", "Ǌ", "ǋ", "ǌ", "Ǎ", "ǎ", "Ǐ", "ǐ", "Ǒ", "ǒ", "Ǔ",
    "ǔ", "Ǖ", "ǖ", "Ǘ", "ǘ", "Ǚ", "ǚ", "Ǜ", "ǜ", "ǝ", "Ǟ", "ǟ", "Ǡ", "ǡ",
    "Ǣ", "ǣ", "Ǥ", "ǥ", "Ǧ", "ǧ", "Ǩ", "ǩ", "Ǫ", "ǫ", "Ǭ", "ǭ", "Ǯ", "ǯ",
    "ǰ", "Ǳ", "ǲ", "ǳ", "Ǵ", "ǵ", "Ƕ", "Ƿ", "Ǹ", "ǹ", "Ǻ", "ǻ", "Ǽ", "ǽ",
    "Ǿ", "ǿ", "ʀ", "ʁ", "ʂ", "ʃ", "ʄ", "ʅ", "ʆ", "ʇ", "ʈ", "ʉ", "ʊ", "ʋ",
    "ʌ", "ʍ", "ʎ", "ʏ", "ʐ", "ʑ", "ʒ", "ʓ", "ʕ", "ʖ", "ʗ", "ʘ", "ʙ", "ʚ",
    "ʛ", "ʜ", "ʝ", "ʞ", "ʟ", "ʠ", "ʡ", "ʢ", "ʣ", "ʤ", "ʥ", "ʦ", "ʧ", "ʨ",
    "ʩ", "ʪ", "ʫ", "ʬ", "ʭ", "ʮ", "ʯ", "Ά", "Έ", "Ή", "Ί", "Ό", "Ύ", "Ώ",
    "ΐ", "Α", "Β", "Γ", "Δ", "Ε", "Ζ", "Η", "Θ", "Ι", "Κ", "Λ", "Μ", "Ν",
    "Ξ", "Ο", "Π", "Ρ", "Σ", "Τ", "Υ", "Φ", "Χ", "Ψ", "Ω", "Ϊ", "Ϋ", "ά",
    "έ", "ή", "ί", "ΰ", "α", "β", "γ", "δ", "ε", "ζ", "η", "θ", "ι", "κ",
    "λ", "μ", "ν", "ξ", "ο", "π", "ρ", "ς", "σ", "τ", "υ", "φ", "χ", "ψ",
    "ω", "ϊ", "ϋ", "ό", "ύ", "ώ", "Ϗ", "ϐ", "ϑ", "ϒ", "ϓ", "ϔ", "ϕ", "ϖ",
    "ϗ", "Ϙ", "ϙ", "Ϛ", "ϛ", "Ϝ", "ϝ", "Ϟ", "ϟ", "Ϡ", "ϡ", "Ϣ", "ϣ", "Ϥ",
    "ϥ", "Ϧ", "ϧ", "Ϩ", "ϩ", "Ϫ", "ϫ", "Ϭ", "ϭ", "Ϯ", "ϯ", "ϰ", "ϱ", "ϲ",
    "ϳ", "ϴ", "ϵ", "Ϸ", "ϸ", "Ϲ", "Ϻ", "ϻ", "ϼ", "Ͻ", "Ͼ", "Ͽ", "Ҁ", "ҁ",
    "Ҋ", "ҋ", "Ҍ", "ҍ", "Ҏ", "ҏ", "Ґ", "ґ", "Ғ", "ғ", "Ҕ", "ҕ", "Җ", "җ",
    "Ҙ", "ҙ", "Қ", "қ", "Ҝ", "ҝ", "Ҟ", "ҟ", "Ҡ", "ҡ", "Ң", "ң", "Ҥ", "ҥ",
    "Ҧ", "ҧ", "Ҩ", "ҩ", "Ҫ", "ҫ", "Ҭ", "ҭ", "Ү", "ү", "Ұ", "ұ", "Ҳ", "ҳ",
    "Ҵ", "ҵ", "Ҷ", "ҷ", "Ҹ", "ҹ", "Һ", "һ", "Ҽ", "ҽ", "Ҿ", "ҿ", "Ӏ", "Ӂ",
    "ӂ", "Ӄ", "ӄ", "Ӆ", "ӆ", "Ӈ", "ӈ", "Ӊ", "ӊ", "Ӌ", "ӌ", "Ӎ", "ӎ", "ӏ",
    "Ӑ", "ӑ", "Ӓ", "ӓ", "Ӕ", "ӕ", "Ӗ", "ӗ", "Ә", "ә", "Ӛ", "ӛ", "Ӝ", "ӝ",
    "Ӟ", "ӟ", "Ӡ", "ӡ", "Ӣ", "ӣ", "Ӥ", "ӥ", "Ӧ", "ӧ", "Ө", "ө", "Ӫ", "ӫ",
    "Ӭ", "ӭ", "Ӯ", "ӯ", "Ӱ", "ӱ", "Ӳ", "ӳ", "Ӵ", "ӵ", "Ӷ", "ӷ", "Ӹ", "ӹ",
    "Ӻ", "ӻ", "Ӽ", "ӽ", "Ӿ", "ӿ", "ր", "ց", "ւ", "փ", "ք", "օ", "ֆ", "և",
    "ֈ", "Ⴀ", "Ⴁ", "Ⴂ", "Ⴃ", "Ⴄ", "Ⴅ", "Ⴆ", "Ⴇ", "Ⴈ", "Ⴉ", "Ⴊ", "Ⴋ", "Ⴌ",
    "Ⴍ", "Ⴎ", "Ⴏ", "Ⴐ", "Ⴑ", "Ⴒ", "Ⴓ", "Ⴔ", "Ⴕ", "Ⴖ", "Ⴗ", "Ⴘ", "Ⴙ", "Ⴚ",
    "Ⴛ", "Ⴜ", "Ⴝ", "Ⴞ", "Ⴟ", "Ⴠ", "Ⴡ", "Ⴢ", "Ⴣ", "Ⴤ", "Ⴥ", "Ⴧ", "Ⴭ", "ა",
    "ბ", "გ", "დ", "ე", "ვ", "ზ", "თ", "ი", "კ", "ლ", "მ", "ნ", "ო", "პ",
    "ჟ", "რ", "ს", "ტ", "უ", "ფ", "ქ", "ღ", "ყ", "შ", "ჩ", "ც", "ძ", "წ",
    "ჭ", "ხ", "ჯ", "ჰ", "ჱ", "ჲ", "ჳ", "ჴ", "ჵ", "ჶ", "ჷ", "ჸ", "ჹ", "ჺ",
    "ჽ", "ჾ", "ჿ", "Ꭰ", "Ꭱ", "Ꭲ", "Ꭳ", "Ꭴ", "Ꭵ", "Ꭶ", "Ꭷ", "Ꭸ", "Ꭹ", "Ꭺ",
    "Ꭻ", "Ꭼ", "Ꭽ", "Ꭾ", "Ꭿ", "Ꮀ", "Ꮁ", "Ꮂ", "Ꮃ", "Ꮄ", "Ꮅ", "Ꮆ", "Ꮇ", "Ꮈ",
    "Ꮉ", "Ꮊ", "Ꮋ", "Ꮌ", "Ꮍ", "Ꮎ", "Ꮏ", "Ꮐ", "Ꮑ", "Ꮒ", "Ꮓ", "Ꮔ", "Ꮕ", "Ꮖ",
    "Ꮗ", "Ꮘ", "Ꮙ", "Ꮚ", "Ꮛ", "Ꮜ", "Ꮝ", "Ꮞ", "Ꮟ", "Ꮠ", "Ꮡ", "Ꮢ", "Ꮣ", "Ꮤ",
    "Ꮥ", "Ꮦ", "Ꮧ", "Ꮨ", "Ꮩ", "Ꮪ", "Ꮫ", "Ꮬ", "Ꮭ", "Ꮮ", "Ꮯ", "Ꮰ", "Ꮱ", "Ꮲ",
    "Ꮳ", "Ꮴ", "Ꮵ", "Ꮶ", "Ꮷ", "Ꮸ", "Ꮹ", "Ꮺ", "Ꮻ", "Ꮼ", "Ꮽ", "Ꮾ", "Ꮿ", "Ᏸ",
    "Ᏹ", "Ᏺ", "Ᏻ", "Ᏼ", "Ᏽ", "ᏸ", "ᏹ", "ᏺ", "ᏻ", "ᏼ", "ᏽ", "ᲀ", "ᲁ", "ᲂ",
    "ᲃ", "ᲄ", "ᲅ", "ᲆ", "ᲇ", "ᲈ", "Ა", "Ბ", "Გ", "Დ", "Ე", "Ვ", "Ზ", "Თ",
    "Ი", "Კ", "Ლ", "Მ", "Ნ", "Ო", "Პ", "Ჟ", "Რ", "Ს", "Ტ", "Უ", "Ფ", "Ქ",
    "Ღ", "Ყ", "Შ", "Ჩ", "Ც", "Ძ", "Წ", "Ჭ", "Ხ", "Ჯ", "Ჰ", "Ჱ", "Ჲ", "Ჳ",
    "Ჴ", "Ჵ", "Ჶ", "Ჷ", "Ჸ", "Ჹ", "Ჺ", "Ჽ", "Ჾ", "Ჿ", "ᶀ", "ᶁ", "ᶂ", "ᶃ",
    "ᶄ", "ᶅ", "ᶆ", "ᶇ", "ᶈ", "ᶉ", "ᶊ", "ᶋ", "ᶌ", "ᶍ", "ᶎ", "ᶏ", "ᶐ", "ᶑ",
    "ᶒ", "ᶓ", "ᶔ", "ᶕ", "ᶖ", "ᶗ", "ᶘ", "ᶙ", "ᶚ", "Ẁ", "ẁ", "Ẃ", "ẃ", "Ẅ",
    "ẅ", "Ẇ", "ẇ", "Ẉ", "ẉ", "Ẋ", "ẋ", "Ẍ", "ẍ", "Ẏ", "ẏ", "Ẑ", "ẑ", "Ẓ",
    "ẓ", "Ẕ", "ẕ", "ẖ", "ẗ", "ẘ", "ẙ", "ẚ", "ẛ", "ẜ", "ẝ", "ẞ", "ẟ", "Ạ",
    "ạ", "Ả", "ả", "Ấ", "ấ", "Ầ", "ầ", "Ẩ", "ẩ", "Ẫ", "ẫ", "Ậ", "ậ", "Ắ",
    "ắ", "Ằ", "ằ", "Ẳ", "ẳ", "Ẵ", "ẵ", "Ặ", "ặ", "Ẹ", "ẹ", "Ẻ", "ẻ", "Ẽ",
    "ẽ", "Ế", "ế", "Ề", "ề", "Ể", "ể", "Ễ", "ễ", "Ệ", "ệ", "Ỉ", "ỉ", "Ị",
    "ị", "Ọ", "ọ", "Ỏ", "ỏ", "Ố", "ố", "Ồ", "ồ", "Ổ", "ổ", "Ỗ", "ỗ", "Ộ",
    "ộ", "Ớ", "ớ", "Ờ", "ờ", "Ở", "ở", "Ỡ", "ỡ", "Ợ", "ợ", "Ụ", "ụ", "Ủ",
    "ủ", "Ứ", "ứ", "Ừ", "ừ", "Ử", "ử", "Ữ", "ữ", "Ự", "ự", "Ỳ", "ỳ", "Ỵ",
    "ỵ", "Ỷ", "ỷ", "Ỹ", "ỹ", "Ỻ", "ỻ", "Ỽ", "ỽ", "Ỿ", "ỿ", "ᾀ", "ᾁ", "ᾂ",
    "ᾃ", "ᾄ", "ᾅ", "ᾆ", "ᾇ", "ᾈ", "ᾉ", "ᾊ", "ᾋ", "ᾌ", "ᾍ", "ᾎ", "ᾏ", "ᾐ",
    "ᾑ", "ᾒ", "ᾓ", "ᾔ", "ᾕ", "ᾖ", "ᾗ", "ᾘ", "ᾙ", "ᾚ", "ᾛ", "ᾜ", "ᾝ", "ᾞ",
    "ᾟ", "ᾠ", "ᾡ", "ᾢ", "ᾣ", "ᾤ", "ᾥ", "ᾦ", "ᾧ", "ᾨ", "ᾩ", "ᾪ", "ᾫ", "ᾬ",
    "ᾭ", "ᾮ", "ᾯ", "ᾰ", "ᾱ", "ᾲ", "ᾳ", "ᾴ", "ᾶ", "ᾷ", "Ᾰ", "Ᾱ", "Ὰ", "Ά",
    "ᾼ", "ι", "ῂ", "ῃ", "ῄ", "ῆ", "ῇ", "Ὲ", "Έ", "Ὴ", "Ή", "ῌ", "ῐ", "ῑ",
    "ῒ", "ΐ", "ῖ", "ῗ", "Ῐ", "Ῑ", "Ὶ", "Ί", "ῠ", "ῡ", "ῢ", "ΰ", "ῤ", "ῥ",
    "ῦ", "ῧ", "Ῠ", "Ῡ", "Ὺ", "Ύ", "Ῥ", "ῲ", "ῳ", "ῴ", "ῶ", "ῷ", "Ὸ", "Ό",
    "Ὼ", "Ώ", "ῼ", "Ↄ", "ↄ", "Ⓐ", "Ⓑ", "Ⓒ", "Ⓓ", "Ⓔ", "Ⓕ", "Ⓖ", "Ⓗ", "Ⓘ",
    "Ⓙ", "Ⓚ", "Ⓛ", "Ⓜ", "Ⓝ", "Ⓞ", "Ⓟ", "Ⓠ", "Ⓡ", "Ⓢ", "Ⓣ", "Ⓤ", "Ⓥ", "Ⓦ",
    "Ⓧ", "Ⓨ", "Ⓩ", "ⓐ", "ⓑ", "ⓒ", "ⓓ", "ⓔ", "ⓕ", "ⓖ", "ⓗ", "ⓘ", "ⓙ", "ⓚ",
    "ⓛ", "ⓜ", "ⓝ", "ⓞ", "ⓟ", "ⓠ", "ⓡ", "ⓢ", "ⓣ", "ⓤ", "ⓥ", "ⓦ", "ⓧ", "ⓨ",
    "ⓩ", "Ⲁ", "ⲁ", "Ⲃ", "ⲃ", "Ⲅ", "ⲅ", "Ⲇ", "ⲇ", "Ⲉ", "ⲉ", "Ⲋ", "ⲋ", "Ⲍ",
    "ⲍ", "Ⲏ", "ⲏ", "Ⲑ", "ⲑ", "Ⲓ", "ⲓ", "Ⲕ", "ⲕ", "Ⲗ", "ⲗ", "Ⲙ", "ⲙ", "Ⲛ",
    "ⲛ", "Ⲝ", "ⲝ", "Ⲟ", "ⲟ", "Ⲡ", "ⲡ", "Ⲣ", "ⲣ", "Ⲥ", "ⲥ", "Ⲧ", "ⲧ", "Ⲩ",
    "ⲩ", "Ⲫ", "ⲫ", "Ⲭ", "ⲭ", "Ⲯ", "ⲯ", "Ⲱ", "ⲱ", "Ⲳ", "ⲳ", "Ⲵ", "ⲵ", "Ⲷ",
    "ⲷ", "Ⲹ", "ⲹ", "Ⲻ", "ⲻ", "Ⲽ", "ⲽ", "Ⲿ", "ⲿ", "Ⳁ", "ⳁ", "Ⳃ", "ⳃ", "Ⳅ",
    "ⳅ", "Ⳇ", "ⳇ", "Ⳉ", "ⳉ", "Ⳋ", "ⳋ", "Ⳍ", "ⳍ", "Ⳏ", "ⳏ", "Ⳑ", "ⳑ", "Ⳓ",
    "ⳓ", "Ⳕ", "ⳕ", "Ⳗ", "ⳗ", "Ⳙ", "ⳙ", "Ⳛ", "ⳛ", "Ⳝ", "ⳝ", "Ⳟ", "ⳟ", "Ⳡ",
    "ⳡ", "Ⳣ", "ⳣ", "ⳤ", "Ⳬ", "ⳬ", "Ⳮ", "ⳮ", "Ⳳ", "ⳳ", "Ꚁ", "ꚁ", "Ꚃ", "ꚃ",
    "Ꚅ", "ꚅ", "Ꚇ", "ꚇ", "Ꚉ", "ꚉ", "Ꚋ", "ꚋ", "Ꚍ", "ꚍ", "Ꚏ", "ꚏ", "Ꚑ", "ꚑ",
    "Ꚓ", "ꚓ", "Ꚕ", "ꚕ", "Ꚗ", "ꚗ", "Ꚙ", "ꚙ", "Ꚛ", "ꚛ", "Ꞁ", "ꞁ", "Ꞃ", "ꞃ",
    "Ꞅ", "ꞅ", "Ꞇ", "ꞇ", "Ꞌ", "ꞌ", "Ɥ", "ꞎ", "Ꞑ", "ꞑ", "Ꞓ", "ꞓ", "ꞔ", "ꞕ",
    "Ꞗ", "ꞗ", "Ꞙ", "ꞙ", "Ꞛ", "ꞛ", "Ꞝ", "ꞝ", "Ꞟ", "ꞟ", "Ꞡ", "ꞡ", "Ꞣ", "ꞣ",
    "Ꞥ", "ꞥ", "Ꞧ", "ꞧ", "Ꞩ", "ꞩ", "Ɦ", "Ɜ", "Ɡ", "Ɬ", "Ɪ", "ꞯ", "Ʞ", "Ʇ",
    "Ʝ", "Ꭓ", "Ꞵ", "ꞵ", "Ꞷ", "ꞷ", "Ꞹ", "ꞹ", "Ꞻ", "ꞻ", "Ꞽ", "ꞽ", "Ꞿ", "ꞿ",
    "Ꟁ", "ꟁ", "Ꟃ", "ꟃ", "Ꞔ", "Ʂ", "Ᶎ", "Ꟈ", "ꟈ", "Ꟊ", "ꟊ", "Ꟑ", "ꟑ", "ꟓ",
    "ꟕ", "Ꟗ", "ꟗ", "Ꟙ", "ꟙ", "Ꟶ", "ꟶ", "ꟺ", "ꮀ", "ꮁ", "ꮂ", "ꮃ", "ꮄ", "ꮅ",
    "ꮆ", "ꮇ", "ꮈ", "ꮉ", "ꮊ", "ꮋ", "ꮌ", "ꮍ", "ꮎ", "ꮏ", "ꮐ", "ꮑ", "ꮒ", "ꮓ",
    "ꮔ", "ꮕ", "ꮖ", "ꮗ", "ꮘ", "ꮙ", "ꮚ", "ꮛ", "ꮜ", "ꮝ", "ꮞ", "ꮟ", "ꮠ", "ꮡ",
    "ꮢ", "ꮣ", "ꮤ", "ꮥ", "ꮦ", "ꮧ", "ꮨ", "ꮩ", "ꮪ", "ꮫ", "ꮬ", "ꮭ", "ꮮ", "ꮯ",
    "ꮰ", "ꮱ", "ꮲ", "ꮳ", "ꮴ", "ꮵ", "ꮶ", "ꮷ", "ꮸ", "ꮹ", "ꮺ", "ꮻ", "ꮼ", "ꮽ",
    "ꮾ", "ꮿ"}

CaseIgnorable == {
    "'", ".", ":", "^", "¨", "­", "¯", "´", "·", "¸", "ʰ", "ʱ", "ʲ", "ʳ",
    "ʴ", "ʵ", "ʶ", "ʷ", "ʸ", "ʹ", "ʺ", "ʻ", "ʼ", "ʽ", "ʾ", "ʿ", "ˀ", "ˁ",
    "˂", "˃", "˄", "˅", "ˆ", "ˇ", "ˈ", "ˉ", "ˊ", "ˋ", "ˌ", "ˍ", "ˎ", "ˏ",
    "ː", "ˑ", "˒", "˓", "˔", "˕", "˖", "˗", "˘", "˙", "˚", "˛", "˜", "˝",
    "˞", "˟", "ˠ", "ˡ", "ˢ", "ˣ", "ˤ", "˥", "˦", "˧", "˨", "˩", "˪", "˫",
    "ˬ", "˭", "ˮ", "˯", "˰", "˱", "˲", "˳", "˴", "˵", "˶", "˷", "˸", "˹",
    "˺", "˻", "˼", "˽", "˾", "˿", "΄", "΅", "·", "҃", "҄", "҅", "҆", "҇",
    "҈", "҉", "֑", "֒", "֓", "֔", "֕", "֖", "֗", "֘", "֙", "֚", "֛", "֜",
    "֝", "֞", "֟", "֠", "֡", "֢", "֣", "֤", "֥", "֦", "֧", "֨", "֩", "֪",
    "֫", "֬", "֭", "֮", "֯", "ְ", "ֱ", "ֲ", "ֳ", "ִ", "ֵ", "ֶ", "ַ", "ָ",
    "ֹ", "ֺ", "ֻ", "ּ", "ֽ", "ֿ", "ׁ", "ׂ", "ׄ", "ׅ", "ׇ", "״", "ۖ", "ۗ",
    "ۘ", "ۙ", "ۚ", "ۛ", "ۜ", "۝", "۟", "۠", "ۡ", "ۢ", "ۣ", "ۤ", "ۥ", "ۦ",
    "ۧ", "ۨ", "۪", "۫", "۬", "ۭ", "ަ", "ާ", "ި", "ީ", "ު", "ޫ", "ެ", "ޭ",
    "ޮ", "ޯ", "ް", "߫", "߬", "߭", "߮", "߯", "߰", "߱", "߲", "߳", "ߴ", "ߵ",
    "ߺ", "߽", "࢈", "࢐", "࢑", "࢘", "࢙", "࢚", "࢛", "࢜", "࢝", "࢞", "࢟", "ࣉ",
    "࣊", "࣋", "࣌", "࣍", "࣎", "࣏", "࣐", "࣑", "࣒", "࣓", "ࣔ", "ࣕ", "ࣖ", "ࣗ",
    "ࣘ", "ࣙ", "ࣚ", "ࣛ", "ࣜ", "ࣝ", "ࣞ", "ࣟ", "࣠", "࣡", "࣢", "ࣣ", "ࣤ", "ࣥ",
    "ࣦ", "ࣧ", "ࣨ", "ࣩ", "࣪", "࣫", "࣬", "࣭", "࣮", "࣯", "ࣰ", "ࣱ", "ࣲ", "ࣳ",
    "ࣴ", "ࣵ", "ࣶ", "ࣷ", "ࣸ", "ࣹ", "ࣺ", "ࣻ", "ࣼ", "ࣽ", "ࣾ", "ࣿ", "ঁ", "়",
    "ু", "ূ", "ৃ", "ৄ", "্", "ৢ", "ৣ", "৾", "ઁ", "ં", "઼", "ુ", "ૂ", "ૃ",
    "ૄ", "ૅ", "ે", "ૈ", "્", "ૢ", "ૣ", "ૺ", "ૻ", "ૼ", "૽", "૾", "૿", "ஂ",
    "ீ", "்", "ಁ", "಼", "ಿ", "ೆ", "ೌ", "್", "ೢ", "ೣ", "ඁ", "්", "ි", "ී",
    "ු", "ූ", "ັ", "ິ", "ີ", "ຶ", "ື", "ຸ", "ູ", "຺", "ົ", "ຼ", "ໆ", "່",
    "້", "໊", "໋", "໌", "ໍ", "ྀ", "ཱྀ", "ྂ", "ྃ", "྄", "྆", "྇", "ྍ", "ྎ",
    "ྏ", "ྐ", "ྑ", "ྒ", "ྒྷ", "ྔ", "ྕ", "ྖ", "ྗ", "ྙ", "ྚ", "ྛ", "ྜ", "ྜྷ",
    "ྞ", "ྟ", "ྠ", "ྡ", "ྡྷ", "ྣ", "ྤ", "ྥ", "ྦ", "ྦྷ", "ྨ", "ྩ", "ྪ", "ྫ",
    "ྫྷ", "ྭ", "ྮ", "ྯ", "ྰ", "ྱ", "ྲ", "ླ", "ྴ", "ྵ", "ྶ", "ྷ", "ྸ", "ྐྵ",
    "ྺ", "ྻ", "ྼ", "࿆", "ႂ", "ႅ", "ႆ", "ႍ", "ႝ", "ჼ", "឴", "឵", "ិ", "ី",
    "ឹ", "ឺ", "ុ", "ូ", "ួ", "ំ", "៉", "៊", "់", "៌", "៍", "៎", "៏", "័",
    "៑", "្", "៓", "ៗ", "៝", "ᢅ", "ᢆ", "ᢩ", "ᪧ", "᪰", "᪱", "᪲", "᪳", "᪴",
    "᪵", "᪶", "᪷", "᪸", "᪹", "᪺", "᪻", "᪼", "᪽", "᪾", "ᪿ", "ᫀ", "᫁", "᫂",
    "᫃", "᫄", "᫅", "᫆", "᫇", "᫈", "᫉", "᫊", "᫋", "ᫌ", "ᫍ", "ᫎ", "ᮀ", "ᮁ",
    "ᮢ", "ᮣ", "ᮤ", "ᮥ", "ᮨ", "ᮩ", "᮫", "ᮬ", "ᮭ", "᯦", "ᯨ", "ᯩ", "ᯭ", "ᯯ",
    "ᯰ", "ᯱ", "᳐", "᳑", "᳒", "᳔", "᳕", "᳖", "᳗", "᳘", "᳙", "᳚", "᳛", "᳜",
    "᳝", "᳞", "᳟", "᳠", "᳢", "᳣", "᳤", "᳥", "᳦", "᳧", "᳨", "᳭", "᳴", "᳸",
    "᳹", "ᶛ", "ᶜ", "ᶝ", "ᶞ", "ᶟ", "ᶠ", "ᶡ", "ᶢ", "ᶣ", "ᶤ", "ᶥ", "ᶦ", "ᶧ",
    "ᶨ", "ᶩ", "ᶪ", "ᶫ", "ᶬ", "ᶭ", "ᶮ", "ᶯ", "ᶰ", "ᶱ", "ᶲ", "ᶳ", "ᶴ", "ᶵ",
    "ᶶ", "ᶷ", "ᶸ", "ᶹ", "ᶺ", "ᶻ", "ᶼ", "ᶽ", "ᶾ", "ᶿ", "᷀", "᷁", "᷂", "᷃",
    "᷄", "᷅", "᷆", "᷇", "᷈", "᷉", "᷊", "᷋", "᷌", "᷍", "᷎", "᷏", "᷐", "᷑",
    "᷒", "ᷓ", "ᷔ", "ᷕ", "ᷖ", "ᷗ", "ᷘ", "ᷙ", "ᷚ", "ᷛ", "ᷜ", "ᷝ", "ᷞ", "ᷟ",
    "ᷠ", "ᷡ", "ᷢ", "ᷣ", "ᷤ", "ᷥ", "ᷦ", "ᷧ", "ᷨ", "ᷩ", "ᷪ", "ᷫ", "ᷬ", "ᷭ",
    "ᷮ", "ᷯ", "ᷰ", "ᷱ", "ᷲ", "ᷳ", "ᷴ", "᷵", "᷶", "᷷", "᷸", "᷹", "᷺", "᷻",
    "᷼", "᷽", "᷾", "᷿", "᾽", "᾿", "῀", "῁", "῍", "῎", "῏", "῝", "῞", "῟",
    "῭", "΅", "`", "´", "῾", "ₐ", "ₑ", "ₒ", "ₓ", "ₔ", "ₕ", "ₖ", "ₗ", "ₘ",
    "ₙ", "ₚ", "ₛ", "ₜ", "⃐", "⃑", "⃒", "⃓", "⃔", "⃕", "⃖", "⃗", "⃘", "⃙",
    "⃚", "⃛", "⃜", "⃝", "⃞", "⃟", "⃠", "⃡", "⃢", "⃣", "⃤", "⃥", "⃦", "⃧",
    "⃨", "⃩", "⃪", "⃫", "⃬", "⃭", "⃮", "⃯", "⃰", "⳯", "⳰", "⳱", "ⷠ", "ⷡ",
    "ⷢ", "ⷣ", "ⷤ", "ⷥ", "ⷦ", "ⷧ", "ⷨ", "ⷩ", "ⷪ", "ⷫ", "ⷬ", "ⷭ", "ⷮ", "ⷯ",
    "ⷰ", "ⷱ", "ⷲ", "ⷳ", "ⷴ", "ⷵ", "ⷶ", "ⷷ", "ⷸ", "ⷹ", "ⷺ", "ⷻ", "ⷼ", "ⷽ",
    "ⷾ", "ⷿ", "゙", "゚", "゛", "゜", "ゝ", "ゞ", "ー", "ヽ", "ヾ", "ꓸ", "ꓹ", "ꓺ",
    "ꓻ", "ꓼ", "ꓽ", "ꚜ", "ꚝ", "ꚞ", "ꚟ", "꛰", "꛱", "ꞈ", "꞉", "꞊", "ꟲ", "ꟳ",
    "ꟴ", "ꟸ", "ꟹ", "꣄", "ꣅ", "꣠", "꣡", "꣢", "꣣", "꣤", "꣥", "꣦", "꣧", "꣨",
    "꣩", "꣪", "꣫", "꣬", "꣭", "꣮", "꣯", "꣰", "꣱", "ꣿ", "ꦀ", "ꦁ", "ꦂ", "꦳",
    "ꦶ", "ꦷ", "ꦸ", "ꦹ", "ꦼ", "ꦽ", "ꧏ", "ꧥ", "ꧦ", "ꪰ", "ꪲ", "ꪳ", "ꪴ", "ꪷ",
    "ꪸ", "ꪾ", "꪿", "꫁", "ꫝ", "ꫬ", "ꫭ", "ꫳ", "ꫴ", "꫶", "ꯥ", "ꯨ", "꯭", "﮲",
    "﮳", "﮴", "﮵", "﮶", "﮷", "﮸", "﮹", "﮺", "﮻", "﮼", "﮽", "﮾", "﮿", "﯀",
    "﯁", "﯂", "﻿", "ﾞ", "ﾟ", "￣", "￹", "￺", "￻"}

\* the capital sigma at i ends a word: a cased character comes before it
\* and none after it, case-ignorable characters passed over
FinalSigma(t, i) ==
    /\ \E j \in 1..(i - 1) :
          /\ Char(t, j) \in Cased
          /\ \A k \in (j + 1)..(i - 1) : Char(t, k) \in CaseIgnorable
    /\ ~\E j \in (i + 1)..Len(t) :
          /\ Char(t, j) \in Cased
          /\ \A k \in (i + 1)..(j - 1) : Char(t, k) \in CaseIgnorable

RECURSIVE LowerFrom(_, _)
LowerFrom(t, i) ==
    IF i > Len(t) THEN ""
    ELSE (IF Char(t, i) = "Σ"
          THEN (IF FinalSigma(t, i) THEN "ς" ELSE "σ")
          ELSE LowerChar(Char(t, i))) \o LowerFrom(t, i + 1)

\* str.lower()
Lower(t) == LowerFrom(t, 1)

\* t.find(key) != -1
Finds(t, key) ==
    \E p \in 0..(Len(t) - Len(key)) : SubSeq(t, p + 1, p + Len(key)) = key

\* t.startswith(key)
StartsWith(t, key) == Len(t) >= Len(key) /\ SubSeq(t, 1, Len(key)) = key

\* t.find(key), counted from 1, where key is found
FindAt(t, key) ==
    CHOOSE p \in 1..Len(t) :
        /\ SubSeq(t, p, p + Len(key) - 1) = key
        /\ \A q \in 1..(p - 1) : SubSeq(t, q, q + Len(key) - 1) # key

\* t.partition(key)[0] and t.partition(key)[2]
PartHead(t, key) == IF Finds(t, key) THEN SubSeq(t, 1, FindAt(t, key) - 1) ELSE t
PartTail(t, key) ==
    IF Finds(t, key) THEN SubSeq(t, FindAt(t, key) + Len(key), Len(t)) ELSE ""

\* the occurrences of key in t, none overlapping another
RECURSIVE CountOf(_, _)
CountOf(t, key) == IF Finds(t, key) THEN 1 + CountOf(PartTail(t, key), key) ELSE 0

\* t.strip()
Strip(t) ==
    LET ink == {i \in 1..Len(t) : Char(t, i) \notin Whitespace}
    IN  IF ink = {} THEN ""
        ELSE SubSeq(t, CHOOSE i \in ink : \A j \in ink : i <= j,
                       CHOOSE i \in ink : \A j \in ink : i >= j)

\* t.split(): the runs of characters that are no white space
RECURSIVE Split(_)
Split(t) ==
    LET ink == {i \in 1..Len(t) : Char(t, i) \notin Whitespace}
    IN  IF ink = {} THEN <<>>
        ELSE LET a == CHOOSE i \in ink : \A j \in ink : i <= j
                 gaps == {i \in a..Len(t) : Char(t, i) \in Whitespace}
                 b == IF gaps = {} THEN Len(t) + 1
                      ELSE CHOOSE i \in gaps : \A j \in gaps : i <= j
             IN  <<SubSeq(t, a, b - 1)>> \o Split(SubSeq(t, b, Len(t)))

(***************************************************************************)
(* Numbers in text.  A token is made from a word by Tok, which records     *)
(* what int() and float() make of the word: an integer literal, another    *)
(* float literal, or a word that both reject with ValueError.              *)
(***************************************************************************)
\* the floats that are no numbers: <<0, 0>> is nan, <<1, 0>> and <<-1, 0>>
\* are the infinities; <<0, -1>> is the negative zero
NonFinite(t) ==
    LET w == Lower(t)
    IN  CASE w \in {"nan", "+nan", "-nan"} -> <<0, 0>>
          [] w \in {"inf", "+inf", "infinity", "+infinity"} -> <<1, 0>>
          [] w \in {"-inf", "-infinity"} -> <<-1, 0>>
          [] OTHER -> <<>>

\* the decimal digits int() and float() read, by value: row v + 1 holds the
\* digits of value v
DigitRows == <<
    "0۰߀০૦௦೦෦໐႐០᧐᪀᪐᮰꣐꧐꧰꯰",
    "1۱߁১૧௧೧෧໑႑១᧑᪁᪑᮱꣑꧑꧱꯱",
    "2۲߂২૨௨೨෨໒႒២᧒᪂᪒᮲꣒꧒꧲꯲",
    "3۳߃৩૩௩೩෩໓႓៣᧓᪃᪓᮳꣓꧓꧳꯳",
    "4۴߄৪૪௪೪෪໔႔៤᧔᪄᪔᮴꣔꧔꧴꯴",
    "5۵߅৫૫௫೫෫໕႕៥᧕᪅᪕᮵꣕꧕꧵꯵",
    "6۶߆৬૬௬೬෬໖႖៦᧖᪆᪖᮶꣖꧖꧶꯶",
    "7۷߇৭૭௭೭෭໗႗៧᧗᪇᪗᮷꣗꧗꧷꯷",
    "8۸߈৮૮௮೮෮໘႘៨᧘᪈᪘᮸꣘꧘꧸꯸",
    "9۹߉৯૯௯೯෯໙႙៩᧙᪉᪙᮹꣙꧙꧹꯹">>

DigitsOf == [v \in 0..9 |-> {Char(DigitRows[v + 1], i) : i \in 1..Len(DigitRows[v + 1])}]

Digits == UNION {DigitsOf[v] : v \in 0..9}

DigitVal(c) == CHOOSE v \in 0..9 : c \in DigitsOf[v]

\* digits, with single underscores allowed between them
DigitGroup(t) ==
    /\ Len(t) > 0
    /\ Char(t, 1) \in Digits
    /\ Char(t, Len(t)) \in Digits
    /\ \A i \in 1..Len(t) : Char(t, i) \in Digits \cup {"_"}
    /\ \A i \in 1..(Len(t) - 1) : Char(t, i) = "_" => Char(t, i + 1) # "_"

RECURSIVE DigitsValue(_, _)
DigitsValue(t, acc) ==
    IF Len(t) = 0 THEN acc
    ELSE DigitsValue(SubSeq(t, 2, Len(t)),
                     IF Char(t, 1) = "_" THEN acc ELSE 10 * acc + DigitVal(Char(t, 1)))

DigitCount(t) == Cardinality({i \in 1..Len(t) : Char(t, i) \in Digits})

RECURSIVE Pow10(_)
Pow10(k) == IF k = 0 THEN 1 ELSE 10 * Pow10(k - 1)

Negative(t) == Len(t) > 0 /\ Char(t, 1) = "-"
Unsigned(t) == IF Len(t) > 0 /\ Char(t, 1) \in {"+", "-"} THEN SubSeq(t, 2, Len(t)) ELSE t

\* the first position in t of a character of cs, 0 if there is none
FirstOf(t, cs) ==
    LET at == {i \in 1..Len(t) : Char(t, i) \in cs}
    IN  IF at = {} THEN 0 ELSE CHOOSE i \in at : \A j \in at : i <= j

Before(t, cs) == IF FirstOf(t, cs) = 0 THEN t ELSE SubSeq(t, 1, FirstOf(t, cs) - 1)
After(t, cs) == IF FirstOf(t, cs) = 0 THEN "" ELSE SubSeq(t, FirstOf(t, cs) + 1, Len(t))

\* int(t) does not raise: a sign and digits
IntText(t) == DigitGroup(Unsigned(t))

\* float(t) does not raise: a sign, digits with a point before, among or
\* after them, an exponent; or one of the words for nan and the infinities
FloatText(t) ==
    \/ NonFinite(t) # <<>>
    \/ LET b == Unsigned(t)
           m == Before(b, {"e", "E"})
           ip == Before(m, {"."})
           fp == After(m, {"."})
       IN  /\ Len(ip) + Len(fp) > 0
           /\ Len(ip) = 0 \/ DigitGroup(ip)
           /\ Len(fp) = 0 \/ DigitGroup(fp)
           /\ FirstOf(b, {"e", "E"}) = 0 \/ IntText(After(b, {"e", "E"}))

IntValue(t) == (IF Negative(t) THEN -1 ELSE 1) * DigitsValue(Unsigned(t), 0)

\* float(t) as a rational
FloatValue(t) ==
    IF NonFinite(t) # <<>> THEN NonFinite(t)
    ELSE LET b == Unsigned(t)
             m == Before(b, {"e", "E"})
             ip == Before(m, {"."})
             fp == After(m, {"."})
             n == DigitsValue(ip \o fp, 0)
             e == IF FirstOf(b, {"e", "E"}) = 0 THEN 0 ELSE IntValue(After(b, {"e", "E"}))
             k == e - DigitCount(fp)
             q == IF k >= 0 THEN <<n * Pow10(k), 1>> ELSE Rat(n, Pow10(-k))
         IN  IF ~Negative(t) THEN q
             ELSE IF q[1] = 0 THEN <<0, -1>>
             ELSE <<-q[1], q[2]>>

\* a token of the text t; num is float(t) where float() accepts t
Tok(t) ==
    [kind |-> IF IntText(t) THEN "int" ELSE IF FloatText(t) THEN "float" ELSE "word",
     num |-> IF FloatText(t) THEN FloatValue(t) ELSE <<0, 1>>,
     text |-> t]

\* the tokens of t.split()
Words(t) == LET split == Split(t) IN [i \in 1..Len(split) |-> Tok(split[i])]

IntOk(tok) == tok.kind = "int"
FloatOk(tok) == tok.kind \in {"int", "float"}
IntOf(tok) == tok.num[1]
FloatOf(tok) == tok.num
NoStep == -1        \* step is not bound before the first opening line

ProfileIdle ==
    /\ cols = 0
    /\ lines_to_read = 0
    /\ data = <<>>
    /\ keys = <<>>
    /\ step = NoStep
    /\ lines = <<>>
    /\ prof_pc = "idle"
    /\ out = <<>>
    /\ n_read = 0
    /\ opened = 0
    /\ declared = 0
    /\ data_rec = <<>>
    /\ filled = {}

\* atom_format before the first atom line (None)
NoFormat == [none |-> TRUE, fmts |-> <<>>]

FrameIdle ==
    /\ f_frame = <<>>
    /\ f_item = "None"
    /\ f_atom_format = NoFormat
    /\ f_data = <<>>
    /\ f_printed = <<>>
    /\ f_pc = "idle"

\* keys before the first 'Step' line and after a closed block (None)
NoKeys == [none |-> TRUE, names |-> <<>>]

LogIdle ==
    /\ l_keys = NoKeys
    /\ l_data = <<>>
    /\ l_read = FALSE
    /\ l_pc = "idle"
    /\ l_out = <<>>
    /\ l_lines = <<>>
    /\ l_cand = <<>>
    /\ l_reported = 0
    /\ l_closed = FALSE
    /\ l_stray = 0

DataIdle ==
    /\ d_topology = <<>>
    /\ d_current_section = "None"
    /\ d_lines = <<>>
    /\ d_pc = "idle"

SkipIdle ==
    /\ file = <<>>
    /\ skip = 1
    /\ pos = 0
    /\ raw = <<>>
    /\ frames_tot = 0
    /\ frames = 0
    /\ frames_read = 0
    /\ output = <<>>
    /\ out_exists = FALSE
    /\ skip_pc = "idle"
    /\ seen_frames = <<>>
    /\ written = <<>>

(***************************************************************************)
(* numpy one-dimensional arrays and their broadcasting: two shapes (m,)    *)
(* and (n,) combine iff m = n or one of them is 1, and the array of        *)
(* length 1 is then repeated along the other.                              *)
(***************************************************************************)
ShapesBroadcast(m, n) == m = n \/ m = 1 \/ n = 1
Broadcastable(u, v) == ShapesBroadcast(Len(u), Len(v))
\* the length two broadcastable shapes are stretched to: the longer one,
\* and 0 when one of them is empty
BroadcastLen(m, n) ==
    IF m >= n THEN (IF n = 0 THEN 0 ELSE m) ELSE (IF m = 0 THEN 0 ELSE n)
At(u, i) == IF Len(u) = 1 THEN u[1] ELSE u[i]
VSub(u, v) == [i \in 1..BroadcastLen(Len(u), Len(v)) |-> RSub(At(u, i), At(v, i))]
VAdd(u, v) == [i \in 1..BroadcastLen(Len(u), Len(v)) |-> RAdd(At(u, i), At(v, i))]
VMul(u, v) == [i \in 1..BroadcastLen(Len(u), Len(v)) |-> RMul(At(u, i), At(v, i))]
VDivInt(u, k) == [i \in 1..Len(u) |-> RDivInt(u[i], k)]
zeros_like(u) == [i \in 1..Len(u) |-> RZero]

Inf == [inf |-> TRUE, v |-> <<>>]
Finite(v) == [inf |-> FALSE, v |-> v]

(***************************************************************************)
(* update_variance: one step of Welford's algorithm.  ok = FALSE stands    *)
(* for the ValueError numpy raises when the operands cannot be broadcast.  *)
(***************************************************************************)
WelfordMeanOffByOne(mean, delta, length) == VAdd(mean, VDivInt(delta, length + 1))

WelfordMean(mean, delta, length) == VAdd(mean, VDivInt(delta, length))

WelfordM2OldMean(var_m2, delta, xdata, mean) == VAdd(var_m2, VMul(delta, delta))

WelfordM2(var_m2, delta, xdata, mean) == VAdd(var_m2, VMul(delta, VSub(xdata, mean)))

WelfordVariance(var_m2, length) ==
    IF length < 2 THEN Inf ELSE Finite(VDivInt(var_m2, length - 1))

update_variance(xdata, length, mean, var_m2) ==
    \* delta has the shape of xdata - mean; var_m2 + delta * (...) must broadcast
    IF ~Broadcastable(xdata, mean) \/
       ~ShapesBroadcast(Len(var_m2), BroadcastLen(Len(xdata), Len(mean)))
    THEN [ok |-> FALSE, length |-> length, mean |-> mean, var_m2 |-> var_m2,
          variance |-> Inf]
    ELSE LET length1 == length + 1
             delta == VSub(xdata, mean)
             mean1 == WelfordMean(mean, delta, length1)
             m2 == WelfordM2(var_m2, delta, xdata, mean1)
         IN  [ok |-> TRUE, length |-> length1, mean |-> mean1, var_m2 |-> m2,
              variance |-> WelfordVariance(m2, length1)]

(***************************************************************************)
(* SpecWelford: update_variance fed same-length observations one at a      *)
(* time, starting from count 0, mean 0 and M2 0.                           *)
(***************************************************************************)
Vectors(n) == [1..n -> {FromInt(x) : x \in Values}]

AvgIdle ==
    /\ raw_data_matrix = <<>>
    /\ raw_data = <<>>
    /\ average_data = <<>>
    /\ n_data = <<>>
    /\ m2_data = <<>>
    /\ var_data = <<>>
    /\ avg_pc = "idle"
    /\ seen_keys = <<>>

WelfordInit ==
    /\ \E n \in BinCounts :
          /\ w_mean = [i \in 1..n |-> RZero]
          /\ w_m2 = [i \in 1..n |-> RZero]
    /\ w_length = 0
    /\ w_variance = Inf
    /\ w_fed = <<>>
    /\ AvgIdle
    /\ ProfileIdle
    /\ SkipIdle
    /\ FrameIdle
    /\ LogIdle
    /\ DataIdle

Feed(xdata) ==
    /\ Len(w_fed) < MaxObs
    /\ LET r == update_variance(xdata, w_length, w_mean, w_m2)
       IN  /\ r.ok
           /\ w_length' = r.length
           /\ w_mean' = r.mean
           /\ w_m2' = r.var_m2
           /\ w_variance' = r.variance
    /\ w_fed' = Append(w_fed, xdata)
    /\ UNCHANGED <<avars, pvars, svars, fvars, lvars, dvars>>

WelfordNext == \E xdata \in Vectors(Len(w_mean)) : Feed(xdata)

SpecWelford == WelfordInit /\ [][WelfordNext]_vars

(***************************************************************************)
(* average_profiles.  A dict is a function whose domain is its key set.    *)
(* One Consume step is one iteration of the loop over the records that     *)
(* read_lammps_profile yields: the inner loop over the keys, in order,     *)
(* stopping at the first exception.                                        *)
(***************************************************************************)
Put(d, k, v) == [x \in (DOMAIN d) \cup {k} |-> IF x = k THEN v ELSE d[x]]

Column(new_data, i) == [r \in 1..Len(new_data) |-> new_data[r][i]]

WelfordIdle ==
    /\ w_length = 0
    /\ w_mean = <<>>
    /\ w_m2 = <<>>
    /\ w_variance = Inf
    /\ w_fed = <<>>

EnsureKey(st, key, column) ==
    IF key \in DOMAIN st.average_data
    THEN st
    ELSE [st EXCEPT !.average_data = Put(@, key, zeros_like(column)),
                    !.m2_data = Put(@, key, zeros_like(column)),
                    !.n_data = Put(@, key, 0),
                    !.var_data = Put(@, key, Inf)]

AppendRaw(rd, key, column) ==
    Put(rd, key, Append(IF key \in DOMAIN rd THEN rd[key] ELSE <<>>, column))

RECURSIVE ProcessKeys(_, _, _, _)
ProcessKeys(st, rec_keys, new_data, i) ==
    IF i > Len(rec_keys) THEN st
    ELSE IF \E r \in 1..Len(new_data) : Len(new_data[r]) # Len(new_data[1]) \/ i > Len(new_data[r])
    THEN [st EXCEPT !.raised = TRUE]
    ELSE LET key == rec_keys[i]
             column == Column(new_data, i)
             s1 == EnsureKey(st, key, column)
             u == update_variance(column, s1.n_data[key], s1.average_data[key],
                                  s1.m2_data[key])
         IN  IF ~u.ok THEN [s1 EXCEPT !.raised = TRUE]
             ELSE ProcessKeys(
                      [s1 EXCEPT !.n_data = Put(@, key, u.length),
                                 !.average_data = Put(@, key, u.mean),
                                 !.m2_data = Put(@, key, u.var_m2),
                                 !.var_data = Put(@, key, u.variance),
                                 !.raw_data = AppendRaw(@, key, column)],
                      rec_keys, new_data, i + 1)

Records ==
    UNION {
        {[keys |-> h, data |-> d] :
            d \in [1..n -> [1..Len(h) -> {FromInt(x) : x \in AvgValues}]]} :
        <<h, n>> \in {hn \in Headers \X {sh[1] : sh \in Shapes} :
                         <<hn[2], Len(hn[1])>> \in Shapes}}

AverageInit ==
    /\ raw_data_matrix = <<>>
    /\ raw_data = <<>>
    /\ average_data = <<>>
    /\ n_data = <<>>
    /\ m2_data = <<>>
    /\ var_data = <<>>
    /\ avg_pc = "loop"
    /\ seen_keys = <<>>
    /\ WelfordIdle
    /\ ProfileIdle
    /\ SkipIdle
    /\ FrameIdle
    /\ LogIdle
    /\ DataIdle

Consume(rec) ==
    /\ avg_pc = "loop"
    /\ Len(raw_data_matrix) < MaxRecords
    /\ raw_data_matrix' = Append(raw_data_matrix, rec.data)
    /\ seen_keys' = Append(seen_keys, rec.keys)
    /\ LET st == ProcessKeys([raw_data |-> raw_data, average_data |-> average_data,
                              n_data |-> n_data, m2_data |-> m2_data,
                              var_data |-> var_data, raised |-> FALSE],
                             rec.keys, rec.data, 1)
       IN  /\ raw_data' = st.raw_data
           /\ average_data' = st.average_data
           /\ n_data' = st.n_data
           /\ m2_data' = st.m2_data
           /\ var_data' = st.var_data
           /\ avg_pc' = IF st.raised THEN "raised" ELSE "loop"
    /\ UNCHANGED <<wvars, pvars, svars, fvars, lvars, dvars>>

Return ==
    /\ avg_pc = "loop"
    /\ avg_pc' = "returned"
    /\ UNCHANGED <<raw_data_matrix, raw_data, average_data, n_data, m2_data, var_data,
                   seen_keys>>
    /\ UNCHANGED <<wvars, pvars, svars, fvars, lvars, dvars>>

\* line 65: read_lammps_profile raises ValueError (its lines 32 and 38) when
\* asked for the next record; the exception leaves average_profiles
ProfileRaises ==
    /\ avg_pc = "loop"
    /\ avg_pc' = "raised"
    /\ UNCHANGED <<raw_data_matrix, raw_data, average_data, n_data, m2_data, var_data,
                   seen_keys>>
    /\ UNCHANGED <<wvars, pvars, svars, fvars, lvars, dvars>>

AverageNext ==
    \/ \E rec \in Records : Consume(rec)
    \/ Return
    \/ ProfileRaises

SpecAverage == AverageInit /\ [][AverageNext]_vars

(***************************************************************************)
(* Reference (two-pass) statistics of a sequence of observation vectors,   *)
(* bin by bin.  A vector of length 1 stands in every bin, as numpy's       *)
(* broadcasting makes it.                                                  *)
(***************************************************************************)
RECURSIVE RSum(_, _)
RSum(f, n) == IF n = 0 THEN RZero ELSE RAdd(RSum(f, n - 1), f[n])

BinValues(obs, b) == [i \in 1..Len(obs) |-> At(obs[i], b)]
ArithmeticMean(xs) == RDivInt(RSum(xs, Len(xs)), Len(xs))
SquaredDeviations(xs) ==
    LET m == ArithmeticMean(xs)
    IN  RSum([i \in 1..Len(xs) |-> RMul(RSub(xs[i], m), RSub(xs[i], m))], Len(xs))

Orderings(n) == {p \in [1..n -> 1..n] : \A i, j \in 1..n : p[i] = p[j] => i = j}

RECURSIVE WelfordRun(_, _)
WelfordRun(obs, n) ==
    IF n = 0
    THEN [ok |-> TRUE, length |-> 0, mean |-> zeros_like(obs[1]),
          var_m2 |-> zeros_like(obs[1]), variance |-> Inf]
    ELSE LET prev == WelfordRun(obs, n - 1)
         IN  update_variance(obs[n], prev.length, prev.mean, prev.var_m2)

\* C1: after N >= 1 same-length observations fed one at a time to
\* update_variance from count 0, mean 0, M2 0, the mean is the arithmetic mean
\* of the N observations in every bin, and feeding the same observations in any
\* other order ends with the same mean.
C1_MeanIsArithmeticMean ==
    Len(w_fed) >= 1 =>
        /\ w_length = Len(w_fed)
        /\ \A b \in 1..Len(w_mean) : w_mean[b] = ArithmeticMean(BinValues(w_fed, b))
        /\ \A p \in Orderings(Len(w_fed)) :
              WelfordRun([i \in 1..Len(w_fed) |-> w_fed[p[i]]], Len(w_fed)).mean = w_mean

C1_Witness ==
    /\ Len(w_fed) = 3
    /\ Len(w_mean) = 2
    /\ w_fed[1] # w_fed[2] /\ w_fed[2] # w_fed[3] /\ w_fed[1] # w_fed[3]
    /\ w_mean[1] = <<7, 3>>


(***************************************************************************)
(* read_lammps_profile: the generator, one step per line of the file and   *)
(* one for the end of the file.  A step that yields appends the record to  *)
(* out and leaves the generator suspended at its yield, with its locals as *)
(* they are; a further step resumes it.  prof_pc = "raised" is an uncaught *)
(* ValueError.                                                             *)
(***************************************************************************)
\* a line of the file with what the reader makes of it: chunk is
\* lines.find('# Chunk ') != -1 and toks is lines.strip().split()
ProfileText(t) == [text |-> t, chunk |-> Finds(t, "# Chunk "), toks |-> Words(t)]

ChunkLines == {ProfileText("# Chunk "), ProfileText("# Chunk A"), ProfileText("# Chunk  É")}

DataTokens == {"0", "1", "2", "x"}

PlainLines ==
    {ProfileText(t) :
        t \in {""} \cup DataTokens
               \cup {a \o " " \o b : a \in {"1", "x"}, b \in DataTokens}}

ProfileLines == ChunkLines \cup PlainLines

Yielded == [keys |-> keys, step |-> step, data |-> data, declared |-> declared,
            rec |-> opened]

\* the generator suspended at the yield of line 36, of line 40
AtYield36 == "suspended at the yield of line 36"
AtYield40 == "suspended at the yield of line 40"

AfterYieldKeep(d) == d

AfterYield(d) == <<>>

ProfileInit ==
    /\ cols = 0
    /\ lines_to_read = 0
    /\ data = <<>>
    /\ keys = <<>>
    /\ step = NoStep
    /\ lines = <<>>
    /\ prof_pc = "reading"
    /\ out = <<>>
    /\ n_read = 0
    /\ opened = 0
    /\ declared = 0
    /\ data_rec = <<>>
    /\ filled = {}
    /\ WelfordIdle
    /\ AvgIdle
    /\ SkipIdle
    /\ FrameIdle
    /\ LogIdle
    /\ DataIdle

NextLine(line) ==
    /\ prof_pc = "reading"
    /\ n_read < MaxLines
    /\ n_read' = n_read + 1
    /\ lines' = line
    /\ UNCHANGED <<wvars, avars, svars, fvars, lvars, dvars>>

ReadHeader(line) ==
    /\ NextLine(line)
    /\ line.chunk
    /\ cols' = Len(line.toks) - 1
    /\ keys' = [i \in 1..(Len(line.toks) - 1) |-> Lower(line.toks[i + 1].text)]
    /\ UNCHANGED <<lines_to_read, data, step, prof_pc, out, opened, declared, data_rec,
                   filled>>

ReadBeforeHeader(line) ==
    /\ NextLine(line)
    /\ ~line.chunk
    /\ cols <= 0
    /\ UNCHANGED <<cols, lines_to_read, data, keys, step, prof_pc, out, opened, declared,
                   data_rec, filled>>

ReadRow(line) ==
    /\ NextLine(line)
    /\ ~line.chunk
    /\ cols > 0
    /\ lines_to_read > 0
    /\ IF Len(line.toks) # cols
       THEN UNCHANGED <<data, data_rec, filled, lines_to_read, prof_pc>>
       ELSE IF \E i \in 1..Len(line.toks) : ~FloatOk(line.toks[i])
       THEN /\ prof_pc' = "raised"
            /\ UNCHANGED <<data, data_rec, filled, lines_to_read>>
       ELSE /\ data' = Append(data, [i \in 1..Len(line.toks) |-> FloatOf(line.toks[i])])
            /\ data_rec' = Append(data_rec, opened)
            /\ filled' = filled \cup {opened}
            /\ lines_to_read' = lines_to_read - 1
            /\ UNCHANGED prof_pc
    /\ UNCHANGED <<cols, keys, step, out, opened, declared>>

\* line 38: step, lines_to_read = [int(i) for i in linesplit[:2]]
Opening(toks) ==
    IF Len(toks) < 2 \/ ~IntOk(toks[1]) \/ ~IntOk(toks[2])
    THEN /\ prof_pc' = "raised"
         /\ UNCHANGED <<step, lines_to_read, opened, declared>>
    ELSE /\ step' = IntOf(toks[1])
         /\ lines_to_read' = IntOf(toks[2])
         /\ declared' = IntOf(toks[2])
         /\ opened' = opened + 1
         /\ prof_pc' = "reading"

\* lines 34-38 up to the yield: a line in opening position.  With rows held
\* the record is handed over and the generator stops at line 36.
ReadOpening(line) ==
    /\ NextLine(line)
    /\ ~line.chunk
    /\ cols > 0
    /\ lines_to_read <= 0
    /\ IF data # <<>>
       THEN /\ out' = Append(out, Yielded)
            /\ prof_pc' = AtYield36
            /\ UNCHANGED <<data, data_rec, step, lines_to_read, opened, declared>>
       ELSE /\ Opening(line.toks)
            /\ UNCHANGED <<out, data, data_rec>>
    /\ UNCHANGED <<cols, keys, filled>>

\* lines 37-38: the consumer asks for the next record, the generator goes on
\* from the yield of line 36 with the line it was reading
ResumeOpening ==
    /\ prof_pc = AtYield36
    /\ data' = AfterYield(data)
    /\ data_rec' = AfterYield(data_rec)
    /\ Opening(lines.toks)
    /\ UNCHANGED <<cols, keys, filled, out, lines, n_read>>
    /\ UNCHANGED <<wvars, avars, svars, fvars, lvars, dvars>>

\* lines 39-40: the file is exhausted
EndOfInput ==
    /\ prof_pc = "reading"
    /\ IF data # <<>>
       THEN /\ out' = Append(out, Yielded)
            /\ prof_pc' = AtYield40
       ELSE /\ prof_pc' = "done"
            /\ UNCHANGED out
    /\ UNCHANGED <<cols, lines_to_read, data, keys, step, lines, n_read, opened, declared,
                   data_rec, filled>>
    /\ UNCHANGED <<wvars, avars, svars, fvars, lvars, dvars>>

\* after line 40: the generator goes on from its last yield and ends
ResumeEnd ==
    /\ prof_pc = AtYield40
    /\ prof_pc' = "done"
    /\ UNCHANGED <<cols, lines_to_read, data, keys, step, lines, out, n_read, opened,
                   declared, data_rec, filled>>
    /\ UNCHANGED <<wvars, avars, svars, fvars, lvars, dvars>>

ProfileNext ==
    \/ \E line \in ProfileLines : ReadHeader(line)
    \/ \E line \in ProfileLines : ReadBeforeHeader(line)
    \/ \E line \in ProfileLines : ReadRow(line)
    \/ \E line \in ProfileLines : ReadOpening(line)
    \/ ResumeOpening
    \/ EndOfInput
    \/ ResumeEnd

SpecProfile == ProfileInit /\ [][ProfileNext]_vars

(***************************************************************************)
(* skip_lammpstrj.  A line of the file is held with whether it starts with *)
(* 'ITEM: TIMESTEP' and how many times that text occurs in it.  main counts*)
(*  the frames (count_frames), then writes every  *)
(* skip-th frame that read_lammpstrj yields.  The generator and the body   *)
(* of main's loop take turns: the generator runs to a yield and stays      *)
(* suspended there, with its locals as they are, while main runs lines     *)
(* 60-64 for the frame; asking for the next frame resumes it.              *)
(***************************************************************************)
\* a line of the file: start is lines.startswith('ITEM: TIMESTEP') and occ
\* the matches of the pattern of line 27 in it
TrajText(t) ==
    [start |-> StartsWith(t, "ITEM: TIMESTEP"),
     occ |-> CountOf(t, "ITEM: TIMESTEP"),
     text |-> t]

SentinelLine == TrajText("ITEM: TIMESTEP")
ZeroLine == TrajText("0")

TrajLines == {
    SentinelLine,
    TrajText("# ITEM: TIMESTEP"),
    ZeroLine,
    TrajText("ITEM: ATOMS")}

RECURSIVE SeqsUpTo(_, _)
SeqsUpTo(S, n) ==
    IF n = 0 THEN {<<>>}
    ELSE LET shorter == SeqsUpTo(S, n - 1)
         IN  shorter \cup {Append(q, x) : q \in shorter, x \in S}

\* a trajectory of 101 frames of two lines each
LongFile == [i \in 1..202 |-> IF i % 2 = 1 THEN SentinelLine ELSE ZeroLine]

\* main(infile, skip=10)
DefaultSkip == 10

\* the occurrences of the sentinel text in the lines lo..hi of f
RECURSIVE CountIn(_, _, _)
CountIn(f, lo, hi) ==
    IF lo > hi THEN 0
    ELSE IF lo = hi THEN f[lo].occ
    ELSE CountIn(f, lo, (lo + hi) \div 2) + CountIn(f, (lo + hi) \div 2 + 1, hi)

count_frames(f, n) == CountIn(f, 1, n)

KeepOffByOne(i, stride) == (i + 1) % stride = 0

Keep(i, stride) == i % stride = 0

StartFrameKeep(r) == r

StartFrame(r) == <<>>

\* the generator suspended at the yield of line 18, of line 22: the frame
\* is handed to main, whose loop body has not run for it yet
TrajYield18 == "suspended at the yield of line 18"
TrajYield22 == "suspended at the yield of line 22"
\* main has run lines 60-64 for the frame; the generator is still suspended
TrajBody18 == "loop body done, suspended at the yield of line 18"
TrajBody22 == "loop body done, suspended at the yield of line 22"

SkipInit ==
    /\ file \in SeqsUpTo(TrajLines, MaxFileLines) \cup {LongFile}
    /\ skip \in (0..MaxSkip) \cup {DefaultSkip}
    /\ pos = 0
    /\ raw = <<>>
    /\ frames_tot = 0
    /\ frames = 0
    /\ frames_read = 0
    /\ output = <<>>
    /\ out_exists = FALSE
    /\ skip_pc = "start"
    /\ seen_frames = <<>>
    /\ written = <<>>
    /\ WelfordIdle
    /\ AvgIdle
    /\ ProfileIdle
    /\ FrameIdle
    /\ LogIdle
    /\ DataIdle

\* main, lines 49-58: mmap refuses an empty file (ValueError); without any
\* occurrence of the sentinel main returns before opening the output file.
CountFrames ==
    /\ skip_pc = "start"
    /\ IF file = <<>>
       THEN /\ skip_pc' = "raised"
            /\ UNCHANGED <<frames_tot, out_exists>>
       ELSE /\ frames_tot' = count_frames(file, Len(file))
            /\ IF frames_tot' < 1
               THEN skip_pc' = "no_frames" /\ UNCHANGED out_exists
               ELSE skip_pc' = "loop" /\ out_exists' = TRUE
    /\ UNCHANGED <<file, skip, pos, raw, frames, frames_read, output, seen_frames, written>>
    /\ UNCHANGED <<wvars, avars, pvars, fvars, lvars, dvars>>

\* read_lammpstrj, lines 15-20, for the next line of the file, up to the
\* yield of line 18 when the line opens a frame and raw holds lines.
ReadTrajLine ==
    /\ skip_pc = "loop"
    /\ pos < Len(file)
    /\ pos' = pos + 1
    /\ LET line == file[pos + 1]
       IN  IF line.start /\ raw # <<>>
           THEN /\ seen_frames' = Append(seen_frames, raw)
                /\ skip_pc' = TrajYield18
                /\ UNCHANGED raw
           ELSE /\ raw' = Append(IF line.start THEN StartFrame(raw) ELSE raw, line)
                /\ UNCHANGED <<seen_frames, skip_pc>>
    /\ UNCHANGED <<file, skip, frames_tot, out_exists, frames_read, frames, output, written>>
    /\ UNCHANGED <<wvars, avars, pvars, fvars, lvars, dvars>>

\* read_lammpstrj, lines 21-22: the file is exhausted.
EndOfTrajFile ==
    /\ skip_pc = "loop"
    /\ pos = Len(file)
    /\ IF raw # <<>>
       THEN /\ seen_frames' = Append(seen_frames, raw)
            /\ skip_pc' = TrajYield22
       ELSE /\ skip_pc' = "done"
            /\ UNCHANGED seen_frames
    /\ UNCHANGED <<file, skip, pos, raw, frames_tot, out_exists, frames_read, frames, output,
                   written>>
    /\ UNCHANGED <<wvars, avars, pvars, fvars, lvars, dvars>>

\* main, lines 59-64, for the frame the generator has yielded (frame is raw,
\* i is the number of frames read before it); i % skip raises
\* ZeroDivisionError when skip is 0.
LoopBody ==
    /\ skip_pc \in {TrajYield18, TrajYield22}
    /\ frames_read' = frames_read + 1
    /\ IF skip = 0
       THEN /\ skip_pc' = "raised"
            /\ UNCHANGED <<frames, output, written>>
       ELSE /\ IF Keep(frames_read, skip)
               THEN /\ frames' = frames + 1
                    /\ output' = output \o raw
                    /\ written' = Append(written, frames_read)
               ELSE UNCHANGED <<frames, output, written>>
            /\ skip_pc' = IF skip_pc = TrajYield18 THEN TrajBody18 ELSE TrajBody22
    /\ UNCHANGED <<file, skip, pos, raw, frames_tot, out_exists, seen_frames>>
    /\ UNCHANGED <<wvars, avars, pvars, fvars, lvars, dvars>>

\* read_lammpstrj, lines 19-20: main asks for the next frame and the
\* generator goes on from the yield of line 18 with the line it was reading.
ResumeTrajLine ==
    /\ skip_pc = TrajBody18
    /\ raw' = Append(StartFrame(raw), file[pos])
    /\ skip_pc' = "loop"
    /\ UNCHANGED <<file, skip, pos, frames_tot, out_exists, frames_read, frames, output,
                   seen_frames, written>>
    /\ UNCHANGED <<wvars, avars, pvars, fvars, lvars, dvars>>

\* after line 22 the generator ends, and with it main's loop (lines 65-67).
ResumeTrajEnd ==
    /\ skip_pc = TrajBody22
    /\ skip_pc' = "done"
    /\ UNCHANGED <<file, skip, pos, raw, frames_tot, out_exists, frames_read, frames, output,
                   seen_frames, written>>
    /\ UNCHANGED <<wvars, avars, pvars, fvars, lvars, dvars>>

SkipNext ==
    \/ CountFrames
    \/ ReadTrajLine
    \/ EndOfTrajFile
    \/ LoopBody
    \/ ResumeTrajLine
    \/ ResumeTrajEnd

SpecSkip == SkipInit /\ [][SkipNext]_vars

(***************************************************************************)
(* read_lammpstrj.py: frame_to_dict and the readers it calls.  A line of   *)
(* a frame is its text with what frame_to_dict computes from it: item      *)
(* tells whether the line starts with 'ITEM:', name is the item's name     *)
(* with the white space it holds, item_split its words, strip is           *)
(* lines.strip() and toks the words of the line.  A dictionary is a        *)
(* function from its keys; the                                             *)
(* 'atoms' dictionary also keeps its keys in insertion order.  Values of   *)
(* data carry their Python type in t.  A raised exception ends the call:   *)
(* f_pc = "raised".                                                        *)
(***************************************************************************)
MaxFrameLines == 5  \* lines of the frame handed to frame_to_dict

Min(a, b) == IF a <= b THEN a ELSE b

RECURSIVE DictKeys(_)
DictKeys(names) ==
    IF names = <<>> THEN <<>>
    ELSE LET front == DictKeys(SubSeq(names, 1, Len(names) - 1))
             last == names[Len(names)]
         IN IF \E i \in 1..Len(front) : front[i] = last
            THEN front
            ELSE Append(front, last)

guess_string_format(tok) ==
    IF IntOk(tok) THEN "int"
    ELSE IF FloatOk(tok) THEN "float"
    ELSE "str"

\* fmti(istrip) succeeds, or raises ValueError
Accepts(fmt, tok) ==
    CASE fmt = "int" -> IntOk(tok)
      [] fmt = "float" -> FloatOk(tok)
      [] OTHER -> TRUE

\* the decimal places of r / d for 0 <= r < d
RECURSIVE FracDigits(_, _, _)
FracDigits(r, d, k) ==
    IF r = 0 \/ k = 0 THEN ""
    ELSE ToString((10 * r) \div d) \o FracDigits((10 * r) % d, d, k - 1)

\* the k with 1 <= (a / d) * 10^k, for 0 < a < d
RECURSIVE SciExp(_, _)
SciExp(a, d) == IF a >= d THEN 0 ELSE 1 + SciExp(10 * a, d)

\* str() of the float n / d: 'nan', 'inf', '-inf'; '0.0' and '-0.0';
\* exponent notation below 1e-4 ('1e-05', '1.5e-05'); positional notation
\* otherwise, with at most 16 decimal places ('1.5', '1000.0').  (The
\* exponent notation from 1e16 on is beyond the integers of the model.)
FloatStr(q) ==
    LET a == Abs(q[1])
        d == q[2]
        sign == IF q[1] < 0 THEN "-" ELSE ""
    IN  IF d = 0
        THEN (IF q[1] = 0 THEN "nan" ELSE sign \o "inf")
        ELSE IF a = 0
        THEN (IF d < 0 THEN "-0.0" ELSE "0.0")
        ELSE IF 10000 * a < d
        THEN LET k == SciExp(a, d)
                 m == a * Pow10(k)
             IN  sign \o ToString(m \div d) \o
                 (IF m % d = 0 THEN "" ELSE "." \o FracDigits(m % d, d, 16)) \o
                 "e-" \o (IF k < 10 THEN "0" ELSE "") \o ToString(k)
        ELSE sign \o ToString(a \div d) \o "." \o
             (IF a % d = 0 THEN "0" ELSE FracDigits(a % d, d, 16))

\* the value of fmti(istrip); text is str() of the value
Convert(fmt, tok) ==
    CASE fmt = "int" ->
            [kind |-> "int", num |-> <<IntOf(tok), 1>>, text |-> ToString(IntOf(tok))]
      [] fmt = "float" ->
            [kind |-> "float", num |-> FloatOf(tok), text |-> FloatStr(FloatOf(tok))]
      [] OTHER -> [kind |-> "str", num |-> <<0, 1>>, text |-> tok.text]

ColumnFormatReguess(fmti, tok) == guess_string_format(tok)

\* lines 136-141: the format kept for a column after a value was converted
ColumnFormat(fmti, tok) ==
    IF Accepts(fmti, tok) THEN fmti ELSE guess_string_format(tok)

read_atom_data(atom_format, toks) ==
    LET format == IF atom_format.none
                  THEN [i \in 1..Len(toks) |-> guess_string_format(toks[i])]
                  ELSE atom_format.fmts
        n == Min(Len(toks), Len(format))
        fmt(i) == ColumnFormat(format[i], toks[i])
    IN [formatted |-> [i \in 1..n |-> Convert(fmt(i), toks[i])],
        format |-> [none |-> FALSE,
                    fmts |-> [i \in 1..Len(format) |->
                                 IF i <= n THEN fmt(i) ELSE format[i]]]]

\* ok = FALSE: IndexError (a token is missing) or ValueError (not a float);
\* box is the dictionary as the assignments made before the exception left it
read_box_line(toks, box, dim) ==
    LET lo == CASE dim = "x" -> "xlo" [] dim = "y" -> "ylo" [] OTHER -> "zlo"
        hi == CASE dim = "x" -> "xhi" [] dim = "y" -> "yhi" [] OTHER -> "zhi"
        tilt == CASE dim = "x" -> "xy" [] dim = "y" -> "xz" [] OTHER -> "yz"
    IN IF Len(toks) < 1 \/ ~FloatOk(toks[1])
       THEN [ok |-> FALSE, box |-> box]
       ELSE LET b1 == Put(box, lo, FloatOf(toks[1]))
            IN IF Len(toks) < 2 \/ ~FloatOk(toks[2])
               THEN [ok |-> FALSE, box |-> b1]
               ELSE LET b == Put(b1, hi, FloatOf(toks[2]))
                    IN IF Len(toks) > 2
                       THEN IF FloatOk(toks[3])
                            THEN [ok |-> TRUE, box |-> Put(b, tilt, FloatOf(toks[3]))]
                            ELSE [ok |-> FALSE, box |-> b]
                       ELSE [ok |-> TRUE, box |-> b]

read_for_box(box, toks) ==
    IF "xlo" \in DOMAIN box \/ "xhi" \in DOMAIN box
    THEN IF "ylo" \in DOMAIN box \/ "yhi" \in DOMAIN box
         THEN read_box_line(toks, box, "z")
         ELSE read_box_line(toks, box, "y")
    ELSE read_box_line(toks, box, "x")

\* np.array(val): one element type for the whole array
np_array(val) ==
    LET kinds == {val[i].kind : i \in 1..Len(val)}
        dtype == IF "str" \in kinds THEN "str"
                 ELSE IF "float" \in kinds \/ kinds = {} THEN "float"
                 ELSE "int"
        cast(x) == CASE dtype = "str" -> [kind |-> "str", num |-> <<0, 1>>, text |-> x.text]
                     [] dtype = "float" /\ x.kind = "int" ->
                            [kind |-> "float", num |-> x.num, text |-> FloatStr(x.num)]
                     [] OTHER -> x
    IN [dtype |-> dtype, elems |-> [i \in 1..Len(val) |-> cast(val[i])]]

InconsistentShorter(arr, number) == number.t # "int" \/ Len(arr.elems) < number.v

\* len(data['atoms'][key]) != data['number of atoms']
Inconsistent(arr, number) == number.t # "int" \/ Len(arr.elems) # number.v

\* line 152: lines.strip().split('ITEM:')[1].lower().strip(), the text
\* between the 'ITEM:' the line starts with and the next 'ITEM:' in it
ItemName(t) == Strip(Lower(PartHead(PartTail(Strip(t), "ITEM:"), "ITEM:")))

\* line 153
ItemSplit(t) == Split(ItemName(t))

\* a line of the frame with what frame_to_dict makes of it: item is
\* lines.startswith('ITEM:'), name and item_split are the values of lines
\* 152 and 153 for a line that starts with 'ITEM:', strip is lines.strip()
\* and toks is lines.split()
FrameText(t) ==
    [text |-> t,
     item |-> StartsWith(t, "ITEM:"),
     name |-> IF StartsWith(t, "ITEM:") THEN ItemName(t) ELSE "",
     item_split |-> IF StartsWith(t, "ITEM:") THEN ItemSplit(t) ELSE <<>>,
     strip |-> Strip(t),
     toks |-> Words(t)]

ItemLines == {
    FrameText("ITEM:"),
    FrameText("ITEM: ITEM: ATOMS"),
    FrameText("ITEM: BOX BOUNDS pp"),
    FrameText("ITEM: NUMBER OF ATOMS"),
    FrameText("ITEM: NUMBER  OF ATOMS"),
    FrameText("ITEM: ATOMS id X")}

AtomLines == {
    FrameText("1"),
    FrameText("2"),
    FrameText("1 1.5"),
    FrameText("2 C 1")}

FrameLines == ItemLines \cup AtomLines

FrameInit ==
    /\ f_frame = <<>>
    /\ f_item = "None"
    /\ f_atom_format = NoFormat
    /\ f_data = <<>>
    /\ f_printed = <<>>
    /\ f_pc = "lines"
    /\ WelfordIdle
    /\ AvgIdle
    /\ ProfileIdle
    /\ SkipIdle
    /\ LogIdle
    /\ DataIdle

\* an exception raised before any assignment of the statement
FrameRaise ==
    /\ f_pc' = "raised"
    /\ UNCHANGED <<f_item, f_atom_format, f_data>>

\* lines 151-162: a line that starts with 'ITEM:'
ItemLine(line) ==
    LET item == line.name
        item_split == line.item_split
    IN IF item_split = <<>>
       THEN \* line 152 has bound item to '' when item_split[0] raises IndexError
            /\ f_item' = item
            /\ f_pc' = "raised"
            /\ UNCHANGED <<f_atom_format, f_data>>
       ELSE /\ IF item_split[1] = "box"
               THEN /\ f_item' = "box"
                    /\ f_data' = Put(f_data, "box",
                          [t |-> "dict",
                           v |-> Put(<<>>, "bounds",
                                     SubSeq(item_split, 3, Len(item_split)))])
               ELSE IF item_split[1] = "atoms"
               THEN /\ f_item' = "atoms"
                    /\ f_data' = Put(f_data, "atoms",
                          [t |-> "dict",
                           v |-> [keys |-> DictKeys(Tail(item_split)),
                                  vals |-> [k \in {item_split[i] : i \in 2..Len(item_split)}
                                               |-> <<>>]]])
               ELSE /\ f_item' = item
                    /\ f_data' = Put(f_data, item, [t |-> "list", v |-> <<>>])
            /\ UNCHANGED <<f_atom_format, f_pc>>

\* lines 163-173: any other line
DataLine(line) ==
    IF f_item = "None"
    THEN UNCHANGED <<f_item, f_atom_format, f_data, f_pc>>
    ELSE IF f_item \in {"timestep", "number of atoms"}
    THEN LET strip == Tok(line.strip)
         IN IF IntOk(strip)
            THEN /\ f_data' = Put(f_data, f_item, [t |-> "int", v |-> IntOf(strip)])
                 /\ UNCHANGED <<f_item, f_atom_format, f_pc>>
            ELSE FrameRaise
    ELSE IF f_item = "box"
    THEN LET r == read_for_box(f_data["box"].v, line.toks)
         IN \* the bounds stored before an exception stay in data['box']
            /\ f_data' = Put(f_data, "box", [t |-> "dict", v |-> r.box])
            /\ f_pc' = IF r.ok THEN f_pc ELSE "raised"
            /\ UNCHANGED <<f_item, f_atom_format>>
    ELSE IF f_item = "atoms"
    THEN LET r == read_atom_data(f_atom_format, line.toks)
             atoms == f_data["atoms"].v
             n == Min(Len(atoms.keys), Len(r.formatted))
             col(k) == CHOOSE i \in 1..Len(atoms.keys) : atoms.keys[i] = k
         IN /\ f_atom_format' = r.format
            /\ f_data' = Put(f_data, "atoms",
                  [t |-> "dict",
                   v |-> [keys |-> atoms.keys,
                          vals |-> [k \in DOMAIN atoms.vals |->
                                       IF col(k) <= n
                                       THEN Append(atoms.vals[k], r.formatted[col(k)])
                                       ELSE atoms.vals[k]]]])
            /\ UNCHANGED <<f_item, f_pc>>
    ELSE /\ f_data' = Put(f_data, f_item,
                [t |-> "list", v |-> Append(f_data[f_item].v, line.strip)])
         /\ UNCHANGED <<f_item, f_atom_format, f_pc>>

\* one pass of the loop over the lines of the frame
FrameLine(line) ==
    /\ f_pc = "lines"
    /\ Len(f_frame) < MaxFrameLines
    /\ f_frame' = Append(f_frame, line)
    /\ IF line.item THEN ItemLine(line) ELSE DataLine(line)
    /\ UNCHANGED f_printed
    /\ UNCHANGED <<wvars, avars, pvars, svars, lvars, dvars>>

\* lines 174-178: the frame is exhausted
FrameEnd ==
    /\ f_pc = "lines"
    /\ IF "atoms" \notin DOMAIN f_data
       THEN FrameRaise /\ UNCHANGED f_printed
       ELSE LET atoms == f_data["atoms"].v
                arrays == [k \in DOMAIN atoms.vals |-> np_array(atoms.vals[k])]
            IN IF atoms.keys # <<>> /\ "number of atoms" \notin DOMAIN f_data
               THEN \* line 175 has replaced the first column when line 176
                    \* raises KeyError
                    /\ f_data' = Put(f_data, "atoms",
                          [t |-> "dict",
                           v |-> [keys |-> atoms.keys,
                                  vals |-> [atoms.vals EXCEPT
                                               ![atoms.keys[1]] = arrays[atoms.keys[1]]]]])
                    /\ f_pc' = "raised"
                    /\ UNCHANGED <<f_item, f_atom_format, f_printed>>
               ELSE /\ f_printed' = SelectSeq(atoms.keys,
                          LAMBDA k : Inconsistent(arrays[k], f_data["number of atoms"]))
                    /\ f_data' = Put(f_data, "atoms",
                          [t |-> "dict", v |-> [keys |-> atoms.keys, vals |-> arrays]])
                    /\ f_pc' = "returned"
                    /\ UNCHANGED <<f_item, f_atom_format>>
    /\ UNCHANGED f_frame
    /\ UNCHANGED <<wvars, avars, pvars, svars, lvars, dvars>>

FrameNext ==
    \/ \E line \in FrameLines : FrameLine(line)
    \/ FrameEnd

SpecFrame == FrameInit /\ [][FrameNext]_vars

\* frames whose atom columns hold integers, floats and words in turn
TypedLines == {
    FrameText("ITEM: NUMBER OF ATOMS"),
    FrameText("ITEM: ATOMS id X"),
    FrameText("1"),
    FrameText("1.5"),
    FrameText("C"),
    FrameText("1 1.5"),
    FrameText("C 1")}

TypedNext ==
    \/ \E line \in TypedLines : FrameLine(line)
    \/ FrameEnd

SpecTyped == FrameInit /\ [][TypedNext]_vars

\* frames with a box section of any number of lines
BoxLines == {
    FrameText("ITEM: BOX BOUNDS pp"),
    FrameText("0 10"),
    FrameText("1 11"),
    FrameText("2 12 3"),
    FrameText("0")}

BoxNext ==
    \/ \E line \in BoxLines : FrameLine(line)
    \/ FrameEnd

SpecBox == FrameInit /\ [][BoxNext]_vars

(***************************************************************************)
(* read_lammps_log.py: read_lammps_log.  A line of the log is held with    *)
(* head, which tells whether it starts with 'Step', with 'Loop time' or    *)
(* with neither, and toks, the tokens of lines.strip().split().            *)
(***************************************************************************)
MaxLogLines == 5    \* lines of the log file

LogText(t) ==
    [text |-> t,
     head |-> IF StartsWith(t, "Step") THEN "Step"
              ELSE IF StartsWith(t, "Loop time") THEN "Loop time"
              ELSE "",
     toks |-> Words(t)]

StepLines == {LogText("Step Temp")}

LoopLines == {LogText("Loop time")}

ValueLines == {LogText(""), LogText("1"), LogText("2"), LogText("1 2"), LogText("x")}

LogLines == StepLines \cup LoopLines \cup ValueLines

LogInit ==
    /\ l_keys = NoKeys
    /\ l_data = <<>>
    /\ l_read = FALSE
    /\ l_pc = "reading"
    /\ l_out = <<>>
    /\ l_lines = <<>>
    /\ l_cand = <<>>
    /\ l_reported = 0
    /\ l_closed = FALSE
    /\ l_stray = 0
    /\ WelfordIdle
    /\ AvgIdle
    /\ ProfileIdle
    /\ SkipIdle
    /\ FrameIdle
    /\ DataIdle

LogYielded == [keys |-> l_keys, data |-> l_data, cand |-> l_cand, reported |-> l_reported]

AlwaysAppend(new_data, rows) == TRUE

\* len(new_data) != len(data[-1]) is false
SameLength(new_data, rows) == Len(new_data) = Len(rows[Len(rows)])

\* the generator suspended at the yield of line 21, of line 29, of line 43
LogAtYield21 == "suspended at the yield of line 21"
LogAtYield29 == "suspended at the yield of line 29"
LogAtYield43 == "suspended at the yield of line 43"

\* lines 22-24: the 'Step' line opens a block
OpenBlock(toks) ==
    /\ l_keys' = [none |-> FALSE,
                  names |-> [i \in 1..Len(toks) |-> Lower(toks[i].text)]]
    /\ l_data' = <<>>
    /\ l_read' = TRUE
    /\ l_cand' = <<>>
    /\ l_reported' = 0
    /\ l_closed' = FALSE

\* lines 19-25 up to the yield: a line that starts with 'Step'.  With rows
\* held the block is handed over and the generator stops at line 21.
LogStep(line) ==
    /\ line.head = "Step"
    /\ IF l_data # <<>>
       THEN /\ l_out' = Append(l_out, LogYielded)
            /\ l_pc' = LogAtYield21
            /\ UNCHANGED <<l_keys, l_data, l_read, l_cand, l_reported, l_closed>>
       ELSE /\ OpenBlock(line.toks)
            /\ UNCHANGED <<l_out, l_pc>>
    /\ UNCHANGED l_stray

\* line 26 is false: the line is passed over
LogIgnore(line) ==
    /\ line.head # "Step"
    /\ ~l_read
    /\ l_closed' = (l_closed \/ line.head = "Loop time")
    /\ UNCHANGED <<l_keys, l_data, l_read, l_pc, l_out, l_cand, l_reported, l_stray>>

\* lines 27-29: a line that starts with 'Loop time', while reading.  With
\* rows held the block is handed over and the generator stops at line 29.
LogLoopTime(line) ==
    /\ line.head = "Loop time"
    /\ l_read
    /\ l_closed' = TRUE
    /\ IF l_data # <<>>
       THEN /\ l_out' = Append(l_out, LogYielded)
            /\ l_pc' = LogAtYield29
       ELSE UNCHANGED <<l_out, l_pc>>
    /\ UNCHANGED <<l_data, l_keys, l_read, l_cand, l_reported, l_stray>>

\* lines 33-41: any other line, while reading
LogRow(line) ==
    /\ line.head = ""
    /\ l_read
    /\ l_stray' = IF l_closed THEN l_stray + 1 ELSE l_stray
    /\ IF \E i \in 1..Len(line.toks) : ~FloatOk(line.toks[i])
       THEN /\ l_pc' = "raised"
            /\ UNCHANGED <<l_data, l_cand, l_reported>>
       ELSE LET new_data == [i \in 1..Len(line.toks) |-> FloatOf(line.toks[i])]
            IN /\ l_cand' = Append(l_cand, new_data)
               /\ IF l_data # <<>> /\ ~SameLength(new_data, l_data)
                  THEN /\ l_reported' = l_reported + 1
                       /\ UNCHANGED l_data
                  ELSE /\ l_data' = Append(l_data, new_data)
                       /\ UNCHANGED l_reported
               /\ UNCHANGED l_pc
    /\ UNCHANGED <<l_keys, l_read, l_out, l_closed>>

\* one pass of the loop over the lines of the file
LogLine(line) ==
    /\ l_pc = "reading"
    /\ Len(l_lines) < MaxLogLines
    /\ l_lines' = Append(l_lines, line)
    /\ \/ LogStep(line)
       \/ LogIgnore(line)
       \/ LogLoopTime(line)
       \/ LogRow(line)
    /\ UNCHANGED <<wvars, avars, pvars, svars, fvars, dvars>>

\* lines 22-25: the consumer asks for the next block, the generator goes on
\* from the yield of line 21 with the 'Step' line it was reading
LogResumeStep ==
    /\ l_pc = LogAtYield21
    /\ l_pc' = "reading"
    /\ OpenBlock(l_lines[Len(l_lines)].toks)
    /\ UNCHANGED <<l_out, l_lines, l_stray>>
    /\ UNCHANGED <<wvars, avars, pvars, svars, fvars, dvars>>

\* lines 30-32: the generator goes on from the yield of line 29
LogResumeLoopTime ==
    /\ l_pc = LogAtYield29
    /\ l_pc' = "reading"
    /\ l_data' = <<>>
    /\ l_keys' = NoKeys
    /\ l_read' = FALSE
    /\ l_cand' = <<>>
    /\ l_reported' = 0
    /\ UNCHANGED <<l_out, l_lines, l_closed, l_stray>>
    /\ UNCHANGED <<wvars, avars, pvars, svars, fvars, dvars>>

\* lines 42-43: end of the file
LogEnd ==
    /\ l_pc = "reading"
    /\ IF l_data # <<>>
       THEN /\ l_out' = Append(l_out, LogYielded)
            /\ l_pc' = LogAtYield43
       ELSE /\ l_pc' = "done"
            /\ UNCHANGED l_out
    /\ UNCHANGED <<l_keys, l_data, l_read, l_lines, l_cand, l_reported, l_closed, l_stray>>
    /\ UNCHANGED <<wvars, avars, pvars, svars, fvars, dvars>>

\* after line 43: the generator goes on from its last yield and ends
LogResumeEnd ==
    /\ l_pc = LogAtYield43
    /\ l_pc' = "done"
    /\ UNCHANGED <<l_keys, l_data, l_read, l_out, l_lines, l_cand, l_reported, l_closed,
                   l_stray>>
    /\ UNCHANGED <<wvars, avars, pvars, svars, fvars, dvars>>

LogNext ==
    \/ \E line \in LogLines : LogLine(line)
    \/ LogResumeStep
    \/ LogResumeLoopTime
    \/ LogEnd
    \/ LogResumeEnd

SpecLog == LogInit /\ [][LogNext]_vars

(***************************************************************************)
(* read_lammps_data.py: read_data_file and the look_for_* functions.  A    *)
(* text handed to a look_for_* function is held with its words, [text,     *)
(* split]; the keys are looked for in the text, character by character.    *)
(* A line of the file is held with strip, the text lines 243-244 leave of  *)
(* it.  The topology is a function from its keys.                          *)
(***************************************************************************)
MaxDataLines == 5   \* lines of the data file, the first (skipped) line included

\* lines 17-28
TOPOLOGY_INFO == {
    "atoms", "bonds", "angles", "dihedrals", "impropers",
    "atom types", "bond types", "angle types", "dihedral types", "improper types"}

\* lines 31-53; no comma separates 'Improper Coeffs' from 'Nonbond Coeffs',
\* which makes them the one string 'Improper CoeffsNonbond Coeffs'
SECTIONS == {
    "Masses", "Pair Coeffs", "Bond Coeffs", "Angle Coeffs", "Dihedral Coeffs",
    "Improper CoeffsNonbond Coeffs", "BondBond Coeffs", "BondAngle Coeffs",
    "MiddleBondTorsion Coeffs", "EndBondTorsion Coeffs", "AngleTorsion Coeffs",
    "AngleAngleTorsion Coeffs", "BondBond13 Coeffs", "AngleAngle Coeffs", "Atoms",
    "Velocities", "Bonds", "Angles", "Dihedrals", "Impropers"}

\* lines 56-63; every other section gets [int] + [float] * len(split[1:])
FORMATS(section, n) ==
    CASE section = "atoms" ->
            <<"int", "int", "int", "float", "float", "float", "float", "int", "int", "int">>
      [] section = "velocities" -> <<"int", "float", "float", "float">>
      [] section = "bonds" -> <<"int", "int", "int", "int">>
      [] section = "angles" -> <<"int", "int", "int", "int", "int">>
      [] section \in {"dihedrals", "impropers"} ->
            <<"int", "int", "int", "int", "int", "int">>
      [] OTHER -> [i \in 1..n |-> IF i = 1 THEN "int" ELSE "float"]

\* lines 243-244: lines.strip(), then strip.partition('#')[0]
RemoveComment(t) == PartHead(Strip(t), "#")

\* a text with the tokens of its split()
Text(t) == [text |-> t, split |-> Words(t)]

\* a line of the file
DataText(t) == [lines |-> t, strip |-> Text(RemoveComment(t))]

\* t.replace(' ', '_')
RECURSIVE Underscored(_)
Underscored(t) ==
    IF Len(t) = 0 THEN ""
    ELSE (IF Char(t, 1) = " " THEN "_" ELSE Char(t, 1)) \o Underscored(SubSeq(t, 2, Len(t)))

\* the topologies look_for_topology_info may leave: the keys are visited in
\* the order of a Python set, the first one found in the line is stored
\* (line.split()[0] is there: no text handed over is blank)
look_for_topology_info(line, topology) ==
    LET found == {key \in TOPOLOGY_INFO : Finds(line.text, key)}
    IN IF found = {} \/ ~IntOk(line.split[1])
       THEN {topology}
       ELSE {Put(topology, Underscored(key) \o "_number", IntOf(line.split[1])) :
                key \in found}

\* a < b for floats: never with nan, and the infinities at the ends
FLess(a, b) ==
    /\ a # <<0, 0>>
    /\ b # <<0, 0>>
    /\ IF a[2] = 0 \/ b[2] = 0
       THEN a # b /\ (a = <<-1, 0>> \/ b = <<1, 0>>)
       ELSE a[1] * Abs(b[2]) < b[1] * Abs(a[2])

\* a - b for floats
FSub(a, b) ==
    IF a = <<0, 0>> \/ b = <<0, 0>> \/ (a[2] = 0 /\ a = b) THEN <<0, 0>>
    ELSE IF a[2] = 0 THEN a
    ELSE IF b[2] = 0 THEN <<-b[1], 0>>
    ELSE RSub(a, b)

\* lines 114-126 for one dimension; ok = FALSE: float() raised ValueError
\* (topology['box'] exists by then)
BoxInfoDim(line, topology, dim) ==
    LET low == CASE dim = "x" -> "xlo" [] dim = "y" -> "ylo" [] OTHER -> "zlo"
        high == CASE dim = "x" -> "xhi" [] dim = "y" -> "yhi" [] OTHER -> "zhi"
        length == CASE dim = "x" -> "lx" [] dim = "y" -> "ly" [] OTHER -> "lz"
        toks == line.split
        m == Min(2, Len(toks))
    IN IF ~topology.ok \/ ~Finds(line.text, low)
       THEN topology
       ELSE IF \E i \in 1..m : ~FloatOk(toks[i])
       THEN [ok |-> FALSE,
             t |-> IF "box" \in DOMAIN topology.t
                   THEN topology.t
                   ELSE Put(topology.t, "box", <<>>)]
       ELSE LET box == IF "box" \in DOMAIN topology.t THEN topology.t["box"] ELSE <<>>
                a == FloatOf(toks[1])
                b == FloatOf(toks[m])
                \* min(limit), max(limit): the first unless the second is
                \* smaller, is greater
                lo == IF FLess(b, a) THEN b ELSE a
                hi == IF FLess(a, b) THEN b ELSE a
            IN [ok |-> TRUE,
                t |-> Put(topology.t, "box",
                          Put(Put(Put(box, low, lo), high, hi), length, FSub(hi, lo)))]

look_for_box_info(line, topology) ==
    BoxInfoDim(line, BoxInfoDim(line, BoxInfoDim(line, [ok |-> TRUE, t |-> topology], "x"),
                                "y"), "z")

\* look_for_section returns None
NoSection == ""

\* no key of SECTIONS is the beginning of another one, so that at most one
\* key is found whatever the order in which the set is visited
look_for_section(line) ==
    LET found == {key \in SECTIONS : StartsWith(line.text, key)}
    IN IF found = {} THEN NoSection ELSE CHOOSE key \in found : TRUE

\* float('nan')
NaN == [kind |-> "float", num |-> <<0, 0>>, text |-> "nan"]
IsNaN(x) == x.kind = "float" /\ x.num = <<0, 0>>

\* lines 259-268: the row made of one line of a section
FormatRow(section, toks) ==
    LET fmt == FORMATS(section, Len(toks))
    IN [i \in 1..Min(Len(toks), Len(fmt)) |->
           IF Accepts(fmt[i], toks[i]) THEN Convert(fmt[i], toks[i]) ELSE NaN]

\* section.lower().replace(' ', '_')
SectionKey(section) == Underscored(Lower(section))

DataFileLines == {
    DataText("Masses"),
    DataText("Pair Coeffs # lj"),
    DataText("Pair  Coeffs"),
    DataText("Improper Coeffs"),
    DataText("Atoms"),
    DataText("2 atoms"),
    DataText("# x"),
    DataText("1 1.5#c"),
    DataText("2 1 1 1.5 0 0 0"),
    DataText("0 1 xlo xhi")}

DataInit ==
    /\ d_topology = <<>>
    /\ d_current_section = "None"
    /\ d_lines = <<>>
    /\ d_pc = "reading"
    /\ WelfordIdle
    /\ AvgIdle
    /\ ProfileIdle
    /\ SkipIdle
    /\ FrameIdle
    /\ LogIdle

DataSkip == UNCHANGED <<d_topology, d_current_section, d_pc>>

\* lines 240-269: one pass of the loop over the lines of the file
ReadDataLine(line) ==
    /\ d_pc = "reading"
    /\ Len(d_lines) < MaxDataLines
    /\ d_lines' = Append(d_lines, line)
    /\ LET strip == line.strip
       IN IF Len(d_lines) = 0 \/ strip.text = ""
          THEN DataSkip
          ELSE \E info \in IF d_current_section = "None"
                           THEN look_for_topology_info(strip, d_topology)
                           ELSE {d_topology} :
                 LET boxed == IF d_current_section = "None"
                              THEN look_for_box_info(strip, info)
                              ELSE [ok |-> TRUE, t |-> info]
                     section == look_for_section(strip)
                 IN IF ~boxed.ok
                    THEN /\ d_pc' = "raised"
                         /\ d_topology' = boxed.t
                         /\ UNCHANGED d_current_section
                    ELSE IF section # NoSection
                    THEN /\ d_current_section' = SectionKey(section)
                         /\ d_topology' = IF SectionKey(section) \in DOMAIN boxed.t
                                          THEN boxed.t
                                          ELSE Put(boxed.t, SectionKey(section), <<>>)
                         /\ UNCHANGED d_pc
                    ELSE IF d_current_section # "None"
                    THEN /\ d_topology' = Put(boxed.t, d_current_section,
                                Append(boxed.t[d_current_section],
                                       FormatRow(d_current_section, strip.split)))
                         /\ UNCHANGED <<d_current_section, d_pc>>
                    ELSE /\ d_topology' = boxed.t
                         /\ UNCHANGED <<d_current_section, d_pc>>
    /\ UNCHANGED <<wvars, avars, pvars, svars, fvars, lvars>>

\* line 271: return topology
DataEnd ==
    /\ d_pc = "reading"
    /\ d_pc' = "returned"
    /\ UNCHANGED <<d_topology, d_current_section, d_lines>>
    /\ UNCHANGED <<wvars, avars, pvars, svars, fvars, lvars>>

NoMolecules == "None"

\* lines 143-148: one pass of the loop over topology['atoms'].  The molecules
\* are kept in the order their keys were inserted; a nan is a key no later
\* row finds again.
AddAtom(molecules, atom) ==
    LET mol_id == atom[2]
        known == {i \in 1..Len(molecules) :
                     /\ ~IsNaN(mol_id)
                     /\ molecules[i].key.kind = mol_id.kind
                     /\ molecules[i].key.text = mol_id.text}
    IN IF known = {}
       THEN Append(molecules, [key |-> mol_id, atoms |-> <<atom[1]>>,
                               types |-> <<atom[3]>>, charge |-> <<atom[4]>>])
       ELSE LET i == CHOOSE j \in known : TRUE
            IN [molecules EXCEPT ![i] =
                   [key |-> @.key, atoms |-> Append(@.atoms, atom[1]),
                    types |-> Append(@.types, atom[3]),
                    charge |-> Append(@.charge, atom[4])]]

RECURSIVE AddAtoms(_, _)
AddAtoms(molecules, atoms) ==
    IF atoms = <<>> THEN molecules
    ELSE AddAtoms(AddAtom(molecules, Head(atoms)), Tail(atoms))

\* ok = FALSE: IndexError, a row of topology['atoms'] has fewer than 4 values
get_molecules(topology) ==
    IF "atoms" \notin DOMAIN topology
    THEN [ok |-> TRUE, molecules |-> NoMolecules]
    ELSE IF \E i \in 1..Len(topology["atoms"]) : Len(topology["atoms"][i]) < 4
    THEN [ok |-> FALSE, molecules |-> NoMolecules]
    ELSE [ok |-> TRUE, molecules |-> AddAtoms(<<>>, topology["atoms"])]

\* guess_atom_names returns: every row of topology['masses'] unpacks into
\* (atom_idx, mass)
GuessAtomNamesReturns(topology) ==
    "masses" \in DOMAIN topology =>
        \A i \in 1..Len(topology["masses"]) : Len(topology["masses"][i]) = 2

\* the rows get_atom_table keeps: the last one of each atom[0]
AtomTableRows(atoms) ==
    {i \in 1..Len(atoms) :
        ~\E j \in (i + 1)..Len(atoms) :
            /\ ~IsNaN(atoms[i][1])
            /\ atoms[j][1].kind = atoms[i][1].kind
            /\ atoms[j][1].text = atoms[i][1].text}

\* write_gro_file returns: there is an atom table, every row of it has the
\* values atom[:3] and atom[4:7], its index and molecule are integers
\* ('{:5d}'), and a box has its three lengths
WriteGroFileReturns(topology) ==
    /\ "atoms" \in DOMAIN topology
    /\ \A i \in AtomTableRows(topology["atoms"]) :
           /\ Len(topology["atoms"][i]) >= 7
           /\ topology["atoms"][i][1].kind = "int"
           /\ topology["atoms"][i][2].kind = "int"
    /\ "box" \in DOMAIN topology => {"lx", "ly", "lz"} \subseteq DOMAIN topology["box"]

\* lines 303-312: main after read_data_file returned.  The consistency check
\* and print_molecule_info only print; guess_atom_names and write_gro_file
\* leave the topology as it is and write test.gro.
main ==
    /\ d_pc = "returned"
    /\ LET found == get_molecules(d_topology)
       IN IF ~found.ok
          THEN /\ d_pc' = "raised"
               /\ UNCHANGED d_topology
          ELSE /\ d_topology' = Put(d_topology, "molecules", found.molecules)
               /\ d_pc' = IF /\ GuessAtomNamesReturns(d_topology)
                              /\ WriteGroFileReturns(d_topology)
                           THEN "done"
                           ELSE "raised"
    /\ UNCHANGED <<d_current_section, d_lines>>
    /\ UNCHANGED <<wvars, avars, pvars, svars, fvars, lvars>>

DataNext ==
    \/ \E line \in DataFileLines : ReadDataLine(line)
    \/ DataEnd
    \/ main

SpecData == DataInit /\ [][DataNext]_vars

TwoPassVariance(obs, b) ==
    RDivInt(SquaredDeviations(BinValues(obs, b)), Len(obs) - 1)

VarianceIsTwoPass(variance, obs, n) ==
    IF n < 2
    THEN variance = Inf
    ELSE /\ ~variance.inf
         /\ \A b \in 1..Len(variance.v) : variance.v[b] = TwoPassVariance(obs, b)

RecordsContaining(k) ==
    Cardinality({j \in 1..Len(seen_keys) :
                    \E i \in 1..Len(seen_keys[j]) : seen_keys[j][i] = k})

\* C2 (as amended): for every key, the variance held by average_profiles after
\* N observation vectors were combined for that key (one per column that bears
\* the key, so a record naming the key twice supplies two) is, in every bin,
\* the two-pass value (sum of squared deviations from the arithmetic mean) /
\* (N - 1) when N >= 2, and positive infinity when N < 2.
C2_VarianceIsTwoPass ==
    \A k \in DOMAIN var_data :
        /\ k \in DOMAIN raw_data
        /\ n_data[k] = Len(raw_data[k])
        /\ VarianceIsTwoPass(var_data[k], raw_data[k], Len(raw_data[k]))

C2_Witness ==
    /\ avg_pc = "returned"
    /\ DOMAIN var_data = {"a", "b"}
    /\ n_data["a"] = 3
    /\ ~var_data["a"].inf
    /\ var_data["a"].v[1] = <<1, 3>>
    /\ n_data["b"] = 1
    /\ var_data["b"] = Inf

\* C2 (as stated): for every key, the variance held after N records containing
\* that key is the two-pass value / (N - 1) in every bin when N >= 2 and
\* positive infinity when N < 2.
C2_VarianceByRecords ==
    avg_pc # "raised" =>
        \A k \in DOMAIN var_data :
            VarianceIsTwoPass(var_data[k], raw_data[k], RecordsContaining(k))

\* C3: a vector whose length differs from the length of the key's stored mean
\* and M2 is reported and never combined into them: every vector combined for
\* a key has the length of the key's stored mean.
C3_LengthMismatchReported ==
    \A k \in DOMAIN raw_data :
        \A i \in 1..Len(raw_data[k]) : Len(raw_data[k][i]) = Len(average_data[k])

\* C4: every record yielded by read_lammps_profile holds exactly as many rows
\* as its opening line declared, the last record at end-of-input included.
C4_YieldedRecordsComplete ==
    \A i \in 1..Len(out) : Len(out[i].data) = out[i].declared

\* C5: in every record yielded by read_lammps_profile, each row of data has
\* length len(keys).
C5_RowsMatchKeys ==
    \A i \in 1..Len(out) :
        \A r \in 1..Len(out[i].data) : Len(out[i].data[r]) = Len(out[i].keys)

\* C9: read_lammps_profile runs to end-of-input without raising, whatever the
\* lines are.
C9_NeverRaises == prof_pc # "raised"

YieldedRecs == {out[i].rec : i \in 1..Len(out)}

C10_State ==
    \* each record is yielded at most once, and in input order
    /\ \A i, j \in 1..Len(out) : i < j => out[i].rec < out[j].rec
    \* only records that collected rows are yielded
    /\ YieldedRecs \subseteq filled
    \* the rows held belong to one record, the one opened last
    /\ \A r \in 1..Len(data_rec) : data_rec[r] = opened
    /\ Len(data_rec) = Len(data)
    \* a record with rows that was not yielded yet is the one in progress,
    \* also when an exception has ended the run
    /\ \A n \in filled \ YieldedRecs : n = opened /\ data # <<>>
    \* at end-of-input every record with rows has been yielded
    /\ prof_pc = "done" => filled = YieldedRecs

C10_Step ==
    /\ out' # out =>
        \* the record yielded is the one held, whole
        /\ out' = Append(out, Yielded)
        /\ data # <<>>
        \* at end-of-input, or on the line in opening position after the last row
        /\ \/ prof_pc' = AtYield40 /\ n_read' = n_read
           \/ /\ prof_pc' = AtYield36
              /\ n_read' = n_read + 1
              /\ ~lines'.chunk
              /\ lines_to_read = 0
              /\ Len(data) = declared
    \* going on from the yield the rows handed over are dropped before the
    \* line in opening position opens the next record
    /\ (prof_pc = AtYield36 /\ prof_pc' # prof_pc) =>
        /\ out' = out
        /\ data' = <<>>
        /\ opened' = opened + 1 \/ prof_pc' = "raised"
    \* nothing is read and nothing more is yielded after the last yield
    /\ (prof_pc = AtYield40 /\ prof_pc' # prof_pc) =>
        /\ out' = out
        /\ prof_pc' = "done"

\* C10 (as amended): read_lammps_profile yields each record that collected
\* at least one row exactly once and in input order: on reading the line in
\* opening position that follows the record's declared rows, or at
\* end-of-input with the rows collected until then; a record without rows is
\* never yielded, a run ended by an exception has yielded every record with
\* rows but the one in progress, and the rows held always belong to one
\* record.
C10_YieldOnceInOrder == [](C10_State) /\ [][C10_Step]_vars

\* C10 (as stated): when the input is exhausted every record opened has been
\* yielded exactly once, and each was yielded only after the last of its
\* declared rows was consumed.
C10_EveryRecordYieldedWhole ==
    /\ prof_pc = "done" =>
          \A n \in 1..opened : Cardinality({i \in 1..Len(out) : out[i].rec = n}) = 1
    /\ \A i \in 1..Len(out) : Len(out[i].data) >= out[i].declared

C10_Witness ==
    /\ prof_pc = "done"
    /\ Len(out) = 2
    /\ out[1].rec = 1 /\ Len(out[1].data) = 2
    /\ out[2].rec = 2

\* the sequences lo..hi of ss joined end to end
RECURSIVE FlattenIn(_, _, _)
FlattenIn(ss, lo, hi) ==
    IF lo > hi THEN <<>>
    ELSE IF lo = hi THEN ss[lo]
    ELSE FlattenIn(ss, lo, (lo + hi) \div 2) \o FlattenIn(ss, (lo + hi) \div 2 + 1, hi)

Flatten(ss, n) == FlattenIn(ss, 1, n)

CeilDiv(a, b) == (a + b - 1) \div b

\* the number of frames read_lammpstrj cuts a file into: a frame begins at
\* the first line and at every later line that starts with the sentinel
FrameCount(f) ==
    IF f = <<>> THEN 0 ELSE 1 + Cardinality({i \in 2..Len(f) : f[i].start})

\* frames of at least one line, cut before the lines that start with the
\* sentinel and nowhere else
CutAtSentinels(fr) ==
    \A k \in 1..Len(fr) :
        /\ fr[k] # <<>>
        /\ k > 1 => fr[k][1].start
        /\ \A j \in 2..Len(fr[k]) : ~fr[k][j].start

\* C6 (as amended): for a file that holds the sentinel text at least once and
\* a stride s >= 1, main does not raise; at any time the frames written are
\* those read so far whose index i (from 0, in file order) has i mod s = 0,
\* and when main is done the n >= 1 frames read are the file cut before each
\* line that starts with the sentinel (lines before the first one are
\* frame 0), frame 0 was written and ceil(n / s) frames were written; for a
\* non-empty file without the sentinel text nothing is written.
C6_EveryStrideThFrame ==
    (file # <<>> /\ skip >= 1) =>
        IF count_frames(file, Len(file)) >= 1
        THEN /\ skip_pc \notin {"raised", "no_frames"}
             /\ {written[k] : k \in 1..Len(written)} =
                    {i \in 0..(frames_read - 1) : i % skip = 0}
             /\ \A k \in 1..(Len(written) - 1) : written[k] < written[k + 1]
             /\ frames = Len(written)
             /\ output = Flatten([k \in 1..Len(written) |-> seen_frames[written[k] + 1]],
                                 Len(written))
             /\ skip_pc = "done" =>
                   LET n == Len(seen_frames)
                   IN  /\ n >= 1
                       /\ n = FrameCount(file)
                       /\ frames_read = n
                       /\ Flatten(seen_frames, n) = file
                       /\ CutAtSentinels(seen_frames)
                       /\ written[1] = 0
                       /\ frames = CeilDiv(n, skip)
        ELSE /\ skip_pc \in {"start", "no_frames"}
             /\ ~out_exists
             /\ output = <<>>
             /\ written = <<>>

C6_Witness ==
    /\ skip_pc = "done"
    /\ skip = DefaultSkip
    /\ Len(seen_frames) = 101
    /\ frames = 11
    /\ written[11] = 100

\* C6 (as stated): for every file with n >= 1 frames, a file without the
\* sentinel text included, and stride s >= 1, when main has ended frame 0 was
\* written and ceil(n / s) frames were written.
C6_EveryFileWithFrames ==
    (file # <<>> /\ skip >= 1 /\ skip_pc \in {"done", "no_frames", "raised"}) =>
        /\ written # <<>>
        /\ written[1] = 0
        /\ Len(written) = CeilDiv(FrameCount(file), skip)

\* C7 (as amended): reducing with stride 1 a file that holds the sentinel
\* text at least once writes an output whose lines are the input's lines,
\* each once and in order; lines before the first sentinel are kept.  While
\* main runs, the lines written and the lines the generator holds are the
\* lines read so far.  For a non-empty file without the sentinel text no
\* output file is written.
C7_StrideOneCopies ==
    (skip = 1 /\ file # <<>>) =>
        IF count_frames(file, Len(file)) >= 1
        THEN /\ skip_pc \notin {"raised", "no_frames"}
             /\ skip_pc # "start" => out_exists
             /\ skip_pc = "loop" => output \o raw = SubSeq(file, 1, pos)
             /\ skip_pc = TrajYield18 => output \o raw = SubSeq(file, 1, pos - 1)
             /\ skip_pc = TrajBody18 =>
                   /\ output = SubSeq(file, 1, pos - 1)
                   /\ raw = SubSeq(file, pos - Len(raw), pos - 1)
             /\ skip_pc = TrajYield22 => output \o raw = file
             /\ skip_pc \in {TrajBody22, "done"} => output = file
        ELSE /\ skip_pc \in {"start", "no_frames"}
             /\ ~out_exists
             /\ output = <<>>

C7_Witness ==
    /\ skip = 1
    /\ skip_pc = "done"
    /\ Len(file) = 4
    /\ ~file[1].start
    /\ file[2].start /\ file[4].start
    /\ file[3].occ = 1 /\ ~file[3].start
    /\ output = file

\* C7 (as stated): reducing any file with stride 1 produces an output whose
\* line sequence is the input's, files with no sentinel at all included
\* (stated here of the files that hold at least one line).
C7_StrideOneCopiesEveryFile ==
    (skip = 1 /\ file # <<>> /\ skip_pc \in {"done", "no_frames", "raised"}) =>
        out_exists /\ output = file


(***************************************************************************)
(* A frame as the trajectory format reads it: the data lines that follow   *)
(* the last 'ITEM: NUMBER OF ATOMS' line declare the atom count, the last  *)
(* 'ITEM: ATOMS ...' line declares the atom fields and the data lines      *)
(* after it are the atom lines the returned columns are made of.           *)
(***************************************************************************)
ItemWords(l) == l.item_split
IsAtomsItem(l) == l.item /\ ItemWords(l) # <<>> /\ ItemWords(l)[1] = "atoms"
IsBoxItem(l) == l.item /\ ItemWords(l) # <<>> /\ ItemWords(l)[1] = "box"
IsNumberItem(l) ==
    /\ l.item
    /\ ItemWords(l) # <<>>
    /\ ItemWords(l)[1] \notin {"box", "atoms"}
    /\ l.name = "number of atoms"
IsIntegerItem(l) ==
    /\ l.item
    /\ ItemWords(l) # <<>>
    /\ ItemWords(l)[1] \notin {"box", "atoms"}
    /\ l.name \in {"timestep", "number of atoms"}

Last(S) == IF S = {} THEN 0 ELSE CHOOSE i \in S : \A j \in S : j <= i
Governing(frame, i) == Last({j \in 1..(i - 1) : frame[j].item})
LastAtomsItem(frame) == Last({j \in 1..Len(frame) : IsAtomsItem(frame[j])})
LastNumberItem(frame) == Last({j \in 1..Len(frame) : IsNumberItem(frame[j])})
DataLinesOf(frame, j) ==
    {i \in 1..Len(frame) : ~frame[i].item /\ j > 0 /\ Governing(frame, i) = j}
\* the data lines under any 'ITEM: ATOMS' line of the frame
AllAtomLines(frame) ==
    {i \in 1..Len(frame) : /\ ~frame[i].item
                           /\ Governing(frame, i) > 0
                           /\ IsAtomsItem(frame[Governing(frame, i)])}
DeclaredFields(frame) ==
    LET w == ItemWords(frame[LastAtomsItem(frame)]) IN {w[i] : i \in 2..Len(w)}
DeclaredNumber(frame) ==
    IntOf(frame[Last(DataLinesOf(frame, LastNumberItem(frame)))].toks[1])
\* m: the data lines after the last 'ITEM: ATOMS' line of the frame
CarriedAtomLines(frame) == Cardinality(DataLinesOf(frame, LastAtomsItem(frame)))

\* a box line holds two numbers, and a number as third token if it has one
BoxLineOk(toks) ==
    /\ Len(toks) >= 2
    /\ FloatOk(toks[1])
    /\ FloatOk(toks[2])
    /\ Len(toks) > 2 => FloatOk(toks[3])

\* every 'ITEM:' line names an item, every line under 'ITEM: TIMESTEP' or
\* 'ITEM: NUMBER OF ATOMS' is one integer and every line under 'ITEM: BOX'
\* is a box line
WellFormedFrame(frame) ==
    \A i \in 1..Len(frame) :
        IF frame[i].item
        THEN ItemWords(frame[i]) # <<>>
        ELSE Governing(frame, i) > 0 =>
                LET g == frame[Governing(frame, i)]
                IN  /\ IsBoxItem(g) => BoxLineOk(frame[i].toks)
                    /\ IsIntegerItem(g) =>
                          Len(frame[i].toks) = 1 /\ IntOk(frame[i].toks[1])

\* the frame has an 'ITEM: ATOMS' line and an atom count after its last
\* 'ITEM: NUMBER OF ATOMS' line
FrameDeclares ==
    /\ LastAtomsItem(f_frame) > 0
    /\ DataLinesOf(f_frame, LastNumberItem(f_frame)) # {}
EveryAtomLineFull ==
    \A i \in AllAtomLines(f_frame) :
        Len(f_frame[i].toks) >= Cardinality(DeclaredFields(f_frame))
Printed == {f_printed[i] : i \in 1..Len(f_printed)}

\* C8 (as amended): for a well-formed frame that declares n atoms and whose
\* atom lines all hold at least one token per declared field, frame_to_dict
\* does not raise, and when it has returned an inconsistent data length was
\* printed once for every atom field if m # n data lines follow the last
\* 'ITEM: ATOMS' line, and for no field if m = n.
C8_InconsistentLengthReported ==
    (WellFormedFrame(f_frame) /\ FrameDeclares /\ EveryAtomLineFull) =>
        /\ f_pc # "raised"
        /\ f_pc = "returned" =>
              IF CarriedAtomLines(f_frame) # DeclaredNumber(f_frame)
              THEN /\ Printed = DeclaredFields(f_frame)
                   /\ Len(f_printed) = Cardinality(Printed)
              ELSE f_printed = <<>>

C8_Witness ==
    /\ f_pc = "returned"
    /\ WellFormedFrame(f_frame)
    /\ FrameDeclares
    /\ EveryAtomLineFull
    /\ DeclaredNumber(f_frame) = 1
    /\ CarriedAtomLines(f_frame) = 2
    /\ f_printed = <<"id", "x">>

\* C8 (as stated): a frame that declares n atoms but carries m # n atom lines
\* gets an inconsistent data length printed for every atom field, whatever
\* the atom lines hold.
C8_ReportedForEveryField ==
    (f_pc = "returned" /\ FrameDeclares /\
     CarriedAtomLines(f_frame) # DeclaredNumber(f_frame)) =>
        Printed = DeclaredFields(f_frame)

\* the rows of cand that have the length of its first row, in order
KeptRows(cand) ==
    IF cand = <<>> THEN <<>>
    ELSE SelectSeq(cand, LAMBDA r : Len(r) = Len(cand[1]))

BlockUniform(b) ==
    /\ \A r \in 1..Len(b.data) : Len(b.data[r]) = Len(b.data[1])
    /\ b.data = KeptRows(b.cand)
    /\ b.reported = Len(b.cand) - Len(b.data)

\* C11: in every block yielded by read_lammps_log (and in the block in
\* progress) all rows have the length of the block's first row; the rows kept
\* are the parsed lines of that length, in input order, and one diagnostic was
\* printed for each parsed line left out.
C11_RowsEqualLength ==
    /\ \A i \in 1..Len(l_out) : BlockUniform(l_out[i])
    /\ BlockUniform(LogYielded)

C11_Witness ==
    /\ l_pc = "done"
    /\ Len(l_out) = 1
    /\ Len(l_out[1].cand) = 3
    /\ Len(l_out[1].cand[2]) = 2
    /\ l_out[1].data = << <<FromInt(1)>>, <<FromInt(2)>> >>
    /\ l_out[1].reported = 1

\* C12: a line starting with 'Loop time' closes the block in every case, a
\* block without rows included: no line between it and the next 'Step' line
\* is parsed.
C12_LoopTimeCloses == l_stray = 0

FormatRank(fmt) == CASE fmt = "int" -> 0 [] fmt = "float" -> 1 [] OTHER -> 2

AtomLineRead ==
    /\ f_frame' # f_frame
    /\ ~f_frame'[Len(f_frame')].item
    /\ f_item = "atoms"
    /\ f_pc' = "lines"

C13_Step ==
    \* the format list keeps its length and no column narrows
    /\ ~f_atom_format.none =>
          /\ ~f_atom_format'.none
          /\ Len(f_atom_format'.fmts) = Len(f_atom_format.fmts)
          /\ \A i \in 1..Len(f_atom_format.fmts) :
                FormatRank(f_atom_format'.fmts[i]) >= FormatRank(f_atom_format.fmts[i])
    \* a value stored by an atom line has the type its column has afterwards
    /\ AtomLineRead =>
          LET old == f_data["atoms"].v
              new == f_data'["atoms"].v
          IN \A j \in 1..Len(new.keys) :
                LET k == new.keys[j]
                IN \/ new.vals[k] = old.vals[k]
                   \/ /\ Len(new.vals[k]) = Len(old.vals[k]) + 1
                      /\ j <= Len(f_atom_format'.fmts)
                      /\ new.vals[k][Len(new.vals[k])].kind = f_atom_format'.fmts[j]

\* C13: across the atom lines of one frame the format of each atom column
\* moves only from integer to floating-point to string, never back, and a
\* value that fails the column's current format is stored with the widened
\* one.
C13_FormatsOnlyWiden == [][C13_Step]_vars

C13_Witness ==
    /\ f_pc = "lines"
    /\ ~f_atom_format.none
    /\ f_atom_format.fmts = <<"str">>
    /\ "atoms" \in DOMAIN f_data
    /\ Len(f_data["atoms"].v.vals["id"]) = 3
    /\ f_data["atoms"].v.vals["id"][1].kind = "int"
    /\ f_data["atoms"].v.vals["id"][2].kind = "float"
    /\ f_data["atoms"].v.vals["id"][3].kind = "str"

BoxLineRead ==
    /\ f_frame' # f_frame
    /\ ~f_frame'[Len(f_frame')].item
    /\ f_item = "box"
    /\ f_pc' = "lines"

Claimed(box, dim) ==
    CASE dim = "x" -> "xlo" \in DOMAIN box
      [] dim = "y" -> "ylo" \in DOMAIN box
      [] OTHER -> "zlo" \in DOMAIN box

C14_Step ==
    BoxLineRead =>
        LET old == f_data["box"].v
            new == f_data'["box"].v
            toks == f_frame'[Len(f_frame')].toks
            lo == FloatOf(toks[1])
            hi == FloatOf(toks[2])
            tilted == Len(toks) > 2
        IN \* the bounds of a dimension already assigned stay as they are
           /\ \A k \in DOMAIN old : new[k] = old[k]
           \* the line goes to the first dimension not yet claimed
           /\ IF ~Claimed(old, "x")
              THEN /\ new["xlo"] = lo /\ new["xhi"] = hi
                   /\ tilted => new["xy"] = FloatOf(toks[3])
              ELSE IF ~Claimed(old, "y")
              THEN /\ new["ylo"] = lo /\ new["yhi"] = hi
                   /\ tilted => new["xz"] = FloatOf(toks[3])
              ELSE IF ~Claimed(old, "z")
              THEN /\ new["zlo"] = lo /\ new["zhi"] = hi
                   /\ tilted => new["yz"] = FloatOf(toks[3])
              ELSE new = old

\* C14: within the box section of a frame each bound line is assigned to the
\* first dimension not yet claimed (x, then y, then z, a third value stored
\* as xy, xz, yz) and no box line overwrites the bounds of a dimension that
\* was already assigned, however many box lines there are.
C14_BoxLinesNeverOverwrite == [][C14_Step]_vars

(***************************************************************************)
(* The sections of a data file as the format lists them: 'Improper Coeffs' *)
(* and 'Nonbond Coeffs' are two sections.                                  *)
(***************************************************************************)
ListedSections ==
    (SECTIONS \ {"Improper CoeffsNonbond Coeffs"})
        \cup {"Improper Coeffs", "Nonbond Coeffs"}

IsSectionLine(line) ==
    \E k \in ListedSections : StartsWith(line.strip.text, k)
SectionOfLine(line) ==
    SectionKey(CHOOSE k \in ListedSections : StartsWith(line.strip.text, k))
\* the section a line of the file stands in ("None" before the first one)
SectionAt(flines, i) ==
    LET named == {j \in 2..(i - 1) : IsSectionLine(flines[j])}
    IN IF named = {} THEN "None" ELSE SectionOfLine(flines[Last(named)])

RECURSIVE ExpectedRows(_, _, _)
ExpectedRows(flines, key, n) ==
    IF n < 2 THEN <<>>
    ELSE LET before == ExpectedRows(flines, key, n - 1)
             strip == flines[n].strip
         IN IF strip.text # "" /\ ~IsSectionLine(flines[n]) /\ SectionAt(flines, n) = key
            THEN Append(before, FormatRow(key, strip.split))
            ELSE before

\* C15: every non-empty, non-comment line after the section-name line of a
\* listed section is one row of that section's list and of no other list,
\* until the next section-name line or end-of-file: each listed section named
\* in the file holds exactly the rows of the lines that stand in it.
C15_RowsGoToTheirSection ==
    \A k \in ListedSections :
        (\E j \in 2..Len(d_lines) :
            IsSectionLine(d_lines[j]) /\ SectionOfLine(d_lines[j]) = SectionKey(k)) =>
            /\ SectionKey(k) \in DOMAIN d_topology
            /\ d_topology[SectionKey(k)] = ExpectedRows(d_lines, SectionKey(k), Len(d_lines))

\* C16: for a non-empty trajectory file the number count_frames returns, the
\* progress total of the first pass, equals the number of frames
\* read_lammpstrj yields in the second pass.
C16_CountEqualsFramesRead ==
    (skip_pc = "done" /\ file # <<>>) =>
        /\ frames_tot = count_frames(file, Len(file))
        /\ frames_read = Len(seen_frames)
        /\ frames_tot = frames_read
====
